---- MODULE Spec2Model ----
(***************************************************************************)
(* Simulation engine of the AMB trading bot: the execution brokers         *)
(* (BacktestBroker over cached historical bars, FastBacktestBroker over    *)
(* synthetic series), their quote lookup, order fills and portfolio value. *)
(*                                                                         *)
(* Numbers.  The program computes in binary floating point.  The model     *)
(* computes in fixed point: money and prices are integer cents, quantities *)
(* are integer hundredths of a share, and every product or quotient is     *)
(* truncated (floor) to that grid.  Dates are day numbers; the run starts  *)
(* on day 0.                                                               *)
(***************************************************************************)
EXTENDS Integers, Sequences, FiniteSets, TLC

VARIABLES
    kind,             \* which broker class the run constructed
    pc,               \* run_backtest: "run" while the driver loops, then "done"
    current_date,     \* broker.current_date
    cash,             \* broker.cash
    positions,        \* broker.positions: symbol -> Position
    trade_history,    \* broker.trade_history
    market,           \* what the data provider returns per symbol (BacktestBroker)
    historical_cache, \* BacktestBroker._historical_cache
    hashseed,         \* this process's str-hash randomisation key
    price_cache,      \* FastBacktestBroker._price_cache
    peer_hashseed,    \* a second, independent process: its hash key
    peer_price_cache, \* ... and its FastBacktestBroker._price_cache
    orders,           \* number of order calls issued so far (bounded by MaxOrders)
    final_value,      \* run_backtest's final_value
    last,             \* the last call: its arguments, the state before it, its result
    settings,         \* the Settings fields that differ between runs
    elo_ratings,      \* strategy.elo_ratings
    last_elo_match,   \* strategy.last_elo_match
    stop_levels,      \* strategy.stop_levels
    highest_prices,   \* strategy.highest_prices
    partial_taken,    \* strategy.partial_taken
    portfolio_history,\* broker.portfolio_history
    month_count,      \* _run_monthly_backtest: month_count
    month_end,        \* _run_monthly_backtest: month_end
    day_cursor,       \* _run_monthly_backtest: day_cursor
    injected,         \* how many times the driver has added monthly_budget to cash
    initial_cash,     \* run_backtest's initial_cash argument
    metrics,          \* what calculate_performance_metrics returned
    calendar,         \* the calendar day start_date falls on
    day_count,        \* _run_continuous_backtest: day_count
    current_month,    \* _run_continuous_backtest: (current_year, current_month)
    budget_tracker,   \* BudgetTracker: current_month, monthly_spent, trades
    data_file,        \* the ledger file data/budget_tracker.json
    now_month,        \* the month of the wall clock, datetime.now()
    gathered,         \* preload_all_tickers: the outcome of each fetch task
    missing_symbols,  \* BacktestBroker.missing_symbols
    lifetime,         \* per held symbol, since its entry: what plan_exits saw and decided
    cycle             \* the last strategy call: its decisions and its orders, in order

vars == << kind, pc, current_date, cash, positions, trade_history, market,
           historical_cache, hashseed, price_cache, peer_hashseed,
           peer_price_cache, orders, final_value, last, settings, elo_ratings,
           last_elo_match, stop_levels, highest_prices, partial_taken,
           portfolio_history, month_count, month_end, day_cursor, injected,
           initial_cash, metrics, calendar, day_count, current_month, budget_tracker,
           data_file, now_month, gathered, missing_symbols, lifetime, cycle >>

(***************************************************************************)
(* Bounds of the model.                                                    *)
(***************************************************************************)
MaxOrders == 3        \* order calls per run
MaxDate == 2          \* end_date - start_date, in days
MinSeriesDays == 2    \* stands for the 365-day floor of the synthetic history
WarmupDays == 1       \* stands for the 60 extra days of synthetic history

Symbols == {"AAA", "BBB"}
Kinds == {"backtest", "fast"}

(***************************************************************************)
(* Fixed point.                                                            *)
(***************************************************************************)
Money(units) == units * 100

Shares(n) == n * 100

Max(a, b) == IF a >= b THEN a ELSE b

Min(a, b) == IF a <= b THEN a ELSE b

Abs(a) == IF a < 0 THEN 0 - a ELSE a

\* str.lower() on the side of a trade
Lower(side) == IF side = "BUY" THEN "buy" ELSE IF side = "SELL" THEN "sell" ELSE side

\* price (cents per share) x qty (hundredths of a share), in cents
Notional(price, qty) == (price * qty) \div 100

\* money / price, in hundredths of a share
QtyFor(amount, price) == (amount * 100) \div price

(***************************************************************************)
(* Program constants.                                                      *)
(***************************************************************************)
SLIPPAGE_PERMILLE == 1        \* slippage = 0.001
COMMISSION_RATE_E4 == 5       \* cost * 0.0005
MIN_COMMISSION == 300         \* 3.0, in cents
NoLimit == 0                  \* limit_price None (or 0): "limit_price if limit_price else quote.price"
start_date == 0

end_date == start_date + MaxDate

\* Settings: fractions are in basis points (1/10000), ratings in rating points
take_profit_pct == 1500               \* 0.15
stop_loss_pct == 1000                 \* 0.10
partial_take_profit_pct == 1000       \* 0.10
trailing_stop_activation_pct == 800   \* 0.08
trailing_stop_distance_pct == 500     \* 0.05
elo_initial_rating == 1500
elo_k_factor == 32
monthly_budget == Money(200)

\* the Settings a run is constructed with; partial_take_profit_frac is in percent
Settings(universe, elo_enabled, elo_match_frequency, elo_matches_per_run, partial_take_profit_frac, months) ==
    [universe |-> universe, elo_enabled |-> elo_enabled,
     elo_match_frequency |-> elo_match_frequency,
     elo_matches_per_run |-> elo_matches_per_run,
     partial_take_profit_frac |-> partial_take_profit_frac, months |-> months]

\* the defaults of config.py and of the getattr calls
DefaultSettings == Settings(<< "AAA", "BBB" >>, FALSE, 5, 1, 50, 12)

NoResult == [symbol |-> "", qty |-> 0, side |-> "", price |-> 0]

Quote(symbol, price, volume) == [symbol |-> symbol, price |-> price, volume |-> volume]

Position(symbol, qty, avg_price) == [symbol |-> symbol, qty |-> qty, avg_price |-> avg_price]

OrderResult(symbol, qty, side, price) ==
    [symbol |-> symbol, qty |-> qty, side |-> side, price |-> price]

Bar(date, close, volume) == [date |-> date, close |-> close, volume |-> volume]

EmptyMap == [s \in {} |-> 0]

\* dict[key] = value
Put(map, key, value) == [k \in DOMAIN map \cup {key} |-> IF k = key THEN value ELSE map[k]]

\* del dict[key]
Del(map, key) == [k \in DOMAIN map \ {key} |-> map[k]]

\* Decision(action, symbol, qty, reason, limit_price, stop_loss); stop_loss 0 is None
Decision(action, symbol, qty, reason, limit_price, stop_loss) ==
    [action |-> action, symbol |-> symbol, qty |-> qty, reason |-> reason,
     limit_price |-> limit_price, stop_loss |-> stop_loss]

\* no metrics computed yet
NoMetrics == [initial_value |-> 0, final_value |-> 0, total_contributed |-> 0,
              net_profit |-> 0]

\* no strategy call yet
\* a run that reads no weekday and no calendar month
NoCalendar == [weekday |-> 0, month |-> 1, day |-> 1]

\* "if not self.data_file.exists()"
NoFile == [exists |-> FALSE]

\* BudgetTracker.__init__ before _load: no trade, nothing spent, current_month ""
NoTracker == [current_month |-> 0, monthly_spent |-> 0, trades |-> << >>]

\* a run that never builds a budget tracker, never preloads and never runs the
\* continuous driver
NoLedger ==
    /\ calendar = NoCalendar
    /\ day_count = 0
    /\ current_month = 0
    /\ budget_tracker = NoTracker
    /\ data_file = NoFile
    /\ now_month = 0
    /\ gathered = << >>
    /\ missing_symbols = << >>

NoCycle ==
    [op |-> "none", date |-> start_date - 1, quotes |-> EmptyMap,
     exits |-> << >>, entries |-> << >>, orders |-> << >>, matches |-> << >>,
     round |-> FALSE, available_cash |-> 0, exit_positions |-> EmptyMap,
     pre_cash |-> 0, pre_positions |-> EmptyMap, pre_tracking |-> EmptyMap,
     pre_lifetime |-> EmptyMap, pre_ratings |-> EmptyMap, pre_last_elo_match |-> 0,
     invocation |-> 0]

(***************************************************************************)
(* Quotes.                                                                 *)
(***************************************************************************)
\* a lookup that reads one day ahead of the clock
NotAfterAhead(bar_date, date) == bar_date <= date + 1

\* "bar_date_obj <= self.current_date.date()" / 'bar["date"] <= self.current_date.date()'
NotAfter(bar_date, date) == bar_date <= date

RECURSIVE FirstExact(_, _, _, _)
\* the lowest index in lo .. hi of a bar dated exactly `date`, 0 when there is none
\* (the range is halved so that long histories are scanned at a small depth)
FirstExact(bars, lo, hi, date) ==
    IF lo > hi THEN 0
    ELSE IF lo = hi THEN (IF bars[lo].date = date THEN lo ELSE 0)
    ELSE LET mid == (lo + hi) \div 2
             left == FirstExact(bars, lo, mid, date)
         IN  IF left > 0 THEN left ELSE FirstExact(bars, mid + 1, hi, date)

\* BacktestBroker.fetch_quote, first loop: the first bar dated exactly
\* current_date (its index; 0 when the loop ends without a return)
BT_exact_bar(bars, i, date) == FirstExact(bars, i, Len(bars), date)

RECURSIVE LastNotAfter(_, _, _, _)
\* the highest index in lo .. hi of a bar dated on or before `date`, 0 when there
\* is none
LastNotAfter(bars, lo, hi, date) ==
    IF lo > hi THEN 0
    ELSE IF lo = hi THEN (IF NotAfter(bars[lo].date, date) THEN lo ELSE 0)
    ELSE LET mid == (lo + hi) \div 2
             right == LastNotAfter(bars, mid + 1, hi, date)
         IN  IF right > 0 THEN right ELSE LastNotAfter(bars, lo, mid, date)

\* BacktestBroker.fetch_quote, second loop: closest_bar is overwritten by every
\* bar dated on or before current_date, so the last such bar in list order stays
BT_closest_bar(bars, i, date, closest) ==
    LET found == LastNotAfter(bars, i, Len(bars), date)
    IN  IF found > 0 THEN found ELSE closest

\* BacktestBroker.fetch_quote once the bars are cached
BT_quote(bars, symbol, date) ==
    LET exact == BT_exact_bar(bars, 1, date)
        closest == BT_closest_bar(bars, 1, date, 0)
    IN  IF exact > 0 THEN Quote(symbol, bars[exact].close, bars[exact].volume)
        ELSE IF closest > 0 THEN Quote(symbol, bars[closest].close, bars[closest].volume)
        ELSE Quote(symbol, 0, 0)

\* BacktestBroker.fetch_quote, cache fill: bars of a symbol not yet cached are
\* fetched; a failed fetch (fetched = FALSE) caches the empty list
BT_load(cache, mkt, symbol, fetched) ==
    IF symbol \in DOMAIN cache THEN cache
    ELSE Put(cache, symbol, IF fetched THEN mkt[symbol] ELSE << >>)

RECURSIVE Fast_chosen_bar(_, _, _, _)
\* FastBacktestBroker.fetch_quote: chosen is overwritten by every bar dated on
\* or before current_date
Fast_chosen_bar(series, i, date, chosen) ==
    IF i > Len(series) THEN chosen
    ELSE Fast_chosen_bar(series, i + 1, date,
                         IF NotAfter(series[i].date, date) THEN i ELSE chosen)

\* FastBacktestBroker.fetch_quote once the series is generated
Fast_quote(series, symbol, date) ==
    LET chosen == Fast_chosen_bar(series, 1, date, 0)
    IN  IF chosen = 0 THEN Quote(symbol, 0, 0)
        ELSE Quote(symbol, series[chosen].close, series[chosen].volume)

(***************************************************************************)
(* Synthetic series.  hash(str) is keyed by a per-process random key; the  *)
(* generator random.Random(seed) is a deterministic function of its seed,  *)
(* modelled by a linear congruential generator.                            *)
(***************************************************************************)
HashSeeds == 0 .. 2

SymCode(symbol) == IF symbol = "AAA" THEN 4276545 ELSE 4342338

\* hash(symbol): a signed value that depends on the string and on the process's key
PyHash(symbol, key) ==
    (((SymCode(symbol) % 8191) * 31 + key * 7919) % 65536) - 32768

\* 2**32 in the source; every modelled hash value lies far below either modulus
SeedModulus == 2 ^ 30

\* seed = abs(hash(symbol)) % (2**32)
SeedOf(symbol, key) == Abs(PyHash(symbol, key)) % SeedModulus

\* one draw of random.Random
Rng(state) == (state * 75 + 74) % 65537

\* the GBM step exp((mu - sigma^2/2) dt + sigma sqrt(dt) z), in permille, as a
\* function of the draw z
GbmFactor(draw) == << 970, 985, 995, 1000, 1004, 1012, 1030 >>[(draw % 7) + 1]

days_total == Max(MinSeriesDays, (end_date - start_date) + WarmupDays)

RECURSIVE GenBars(_, _, _, _, _)
\* the loop of _generate_series: one GBM step and one volume draw per day
GenBars(n, date, price, rng, series) ==
    IF n = 0 THEN series
    ELSE LET z == Rng(rng)
             stepped == Max(Money(1), (price * GbmFactor(z)) \div 1000)
             v == Rng(z)
             volume == Max(1000, v % 4000)
         IN  GenBars(n - 1, date + 1, stepped, v,
                     Append(series, Bar(date, stepped, volume)))

\* FastBacktestBroker._generate_series for a symbol not yet cached
generate_series(symbol, key) ==
    LET rng == Rng(SeedOf(symbol, key))
        start_price == Max(Money(20), (rng * Money(180)) \div 65537 + Money(20))
    IN  GenBars(days_total * 2, start_date - days_total, start_price, rng, << >>)

\* "if symbol in self._price_cache: return ..." else generate and store
Fast_load(cache, symbol, key) ==
    IF symbol \in DOMAIN cache THEN cache
    ELSE Put(cache, symbol, generate_series(symbol, key))

(***************************************************************************)
(* Order fills.                                                            *)
(***************************************************************************)
\* a check that lets a price of exactly 0 through
QuoteRejectsBelowZero(price) == price < 0

\* "if not quote.price or quote.price <= 0: return OrderResult(qty=0, ...)"
QuoteRejects(price) == price <= 0

\* "fill_price = limit_price if limit_price else quote.price"
FillBase(limit_price, quote_price) ==
    IF limit_price /= NoLimit THEN limit_price ELSE quote_price

\* "fill_price *= (1 + slippage)"
BuyFillPrice(price) == (price * (1000 + SLIPPAGE_PERMILLE)) \div 1000

\* "fill_price *= (1 - slippage)"
SellFillPrice(price) == (price * (1000 - SLIPPAGE_PERMILLE)) \div 1000

\* "commission = max(cost * 0.0005, 3.0)"
Commission(value) == Max((value * COMMISSION_RATE_E4) \div 10000, MIN_COMMISSION)

\* a position update that overwrites the average with the latest fill price
BuyPositionLastPrice(table, symbol, qty, fill_price) ==
    Put(table, symbol,
        Position(symbol, (IF symbol \in DOMAIN table THEN table[symbol].qty ELSE 0) + qty,
                 fill_price))

\* a buy fill's position update: create, or add with the re-averaged price
BuyPosition(table, symbol, qty, fill_price) ==
    IF symbol \in DOMAIN table
    THEN LET pos == table[symbol]
             new_qty == pos.qty + qty
             new_avg == (pos.avg_price * pos.qty + fill_price * qty) \div new_qty
         IN  Put(table, symbol, Position(symbol, new_qty, new_avg))
    ELSE Put(table, symbol, Position(symbol, qty, fill_price))

\* a sell that never caps the quantity at the holding
SellQtyUncapped(qty, held) == qty

\* "qty = min(qty, pos.qty)"
SellQty(qty, held) == Min(qty, held)

\* a sell that keeps the entry of a holding sold out
SellPositionKeepsEntry(table, symbol, qty) ==
    Put(table, symbol,
        Position(symbol, table[symbol].qty - qty, table[symbol].avg_price))

\* a sell fill's position update: reduce, or delete when nothing remains
SellPosition(table, symbol, qty) ==
    LET pos == table[symbol]
        remaining_qty == pos.qty - qty
    IN  IF remaining_qty > 0
        THEN Put(table, symbol, Position(symbol, remaining_qty, pos.avg_price))
        ELSE Del(table, symbol)

BuyTrade(date, symbol, qty, price, value) ==
    [date |-> date, symbol |-> symbol, side |-> "buy", qty |-> qty,
     price |-> price, value |-> value]

SellTrade(date, symbol, qty, price, value, pnl) ==
    [date |-> date, symbol |-> symbol, side |-> "sell", qty |-> qty,
     price |-> price, value |-> value, pnl |-> pnl]

\* a call that keeps only the newest record of the trade history
OutcomeKeepsNewest(c, table, trades, result) ==
    [cash |-> c, positions |-> table,
     trade_history |-> IF trades = << >> THEN trades ELSE << trades[Len(trades)] >>,
     result |-> result]

\* what a place_order call leaves behind: the broker's fields and the result
Outcome(c, table, trades, result) ==
    [cash |-> c, positions |-> table, trade_history |-> trades, result |-> result]

\* BacktestBroker.place_order after the quote fetch
BT_place_order(c, table, trades, date, quote_price, symbol, qty, side, limit_price) ==
    IF QuoteRejects(quote_price)
    THEN Outcome(c, table, trades, OrderResult(symbol, 0, side, 0))
    ELSE IF side = "buy"
    THEN LET fill_price == BuyFillPrice(FillBase(limit_price, quote_price))
             cost0 == Notional(fill_price, qty)
             short == cost0 + Commission(cost0) > c
             qty1 == IF short THEN QtyFor(c - MIN_COMMISSION, fill_price) ELSE qty
             cost == Notional(fill_price, qty1)
             commission == Commission(cost)
             total_cost == cost + commission
         IN  IF qty1 > 0
             THEN Outcome(c - total_cost,
                          BuyPosition(table, symbol, qty1, fill_price),
                          Append(trades, BuyTrade(date, symbol, qty1, fill_price, cost)),
                          OrderResult(symbol, qty1, side, fill_price))
             ELSE Outcome(c, table, trades, OrderResult(symbol, qty1, side, fill_price))
    ELSE LET fill_price == SellFillPrice(FillBase(limit_price, quote_price))
         IN  IF symbol \notin DOMAIN table
             THEN Outcome(c, table, trades, OrderResult(symbol, 0, side, 0))
             ELSE LET pos == table[symbol]
                      qty1 == SellQty(qty, pos.qty)
                      proceeds == Notional(fill_price, qty1)
                      commission == Commission(proceeds)
                      net_proceeds == proceeds - commission
                      pnl == Notional(fill_price - pos.avg_price, qty1) - commission
                  IN  IF qty1 > 0
                      THEN Outcome(c + net_proceeds,
                                   SellPosition(table, symbol, qty1),
                                   Append(trades, SellTrade(date, symbol, qty1,
                                                            fill_price, proceeds, pnl)),
                                   OrderResult(symbol, qty1, side, fill_price))
                      ELSE Outcome(c, table, trades,
                                   OrderResult(symbol, qty1, side, fill_price))

\* FastBacktestBroker.place_order after the quote fetch
Fast_place_order(c, table, trades, date, quote_price, symbol, qty, side, limit_price) ==
    IF QuoteRejects(quote_price)
    THEN Outcome(c, table, trades, OrderResult(symbol, 0, side, 0))
    ELSE IF side = "buy"
    THEN LET fill_price == BuyFillPrice(FillBase(limit_price, quote_price))
             cost0 == Notional(fill_price, qty)
             short == cost0 > c
             qty1 == IF short THEN QtyFor(c, fill_price) ELSE qty
             cost == Notional(fill_price, qty1)
         IN  IF qty1 > 0
             THEN Outcome(c - cost,
                          BuyPosition(table, symbol, qty1, fill_price),
                          Append(trades, BuyTrade(date, symbol, qty1, fill_price, cost)),
                          OrderResult(symbol, qty1, side, fill_price))
             ELSE Outcome(c, table, trades, OrderResult(symbol, qty1, side, fill_price))
    ELSE LET fill_price == SellFillPrice(FillBase(limit_price, quote_price))
         IN  IF symbol \notin DOMAIN table
             THEN Outcome(c, table, trades, OrderResult(symbol, 0, side, 0))
             ELSE LET pos == table[symbol]
                      qty1 == SellQty(qty, pos.qty)
                      proceeds == Notional(fill_price, qty1)
                      pnl == Notional(fill_price - pos.avg_price, qty1)
                  IN  IF qty1 > 0
                      THEN Outcome(c + proceeds,
                                   SellPosition(table, symbol, qty1),
                                   Append(trades, SellTrade(date, symbol, qty1,
                                                            fill_price, proceeds, pnl)),
                                   OrderResult(symbol, qty1, side, fill_price))
                      ELSE Outcome(c, table, trades,
                                   OrderResult(symbol, qty1, side, fill_price))

(***************************************************************************)
(* Portfolio value.                                                        *)
(***************************************************************************)
RECURSIVE SumHoldings(_, _, _, _)
\* the loop of get_portfolio_value over positions.items(); quotes[s] is the price
\* fetch_quote returns for s
SumHoldings(total, table, quotes, todo) ==
    IF todo = {} THEN total
    ELSE LET symbol == CHOOSE s \in todo : TRUE
             price == quotes[symbol]
         IN  SumHoldings(IF price > 0
                         THEN total + Notional(price, table[symbol].qty)
                         ELSE total,
                         table, quotes, todo \ {symbol})

\* a valuation that leaves the cash out
get_portfolio_value_no_cash(c, table, quotes) ==
    SumHoldings(0, table, quotes, DOMAIN table)

\* get_portfolio_value: "total = self.cash", then the loop
get_portfolio_value(c, table, quotes) ==
    SumHoldings(c, table, quotes, DOMAIN table)

(***************************************************************************)
(* The broker in its current state.                                        *)
(***************************************************************************)
\* whether fetch_quote has to ask the data provider (BacktestBroker, cold cache)
NeedsFetch(symbol) == kind = "backtest" /\ symbol \notin DOMAIN historical_cache

FetchOutcomes(symbol) == IF NeedsFetch(symbol) THEN BOOLEAN ELSE {TRUE}

\* the caches after fetch_quote(symbol)
HistoricalAfter(symbol, fetched) ==
    IF kind = "backtest" THEN BT_load(historical_cache, market, symbol, fetched)
    ELSE historical_cache

PriceCacheAfter(symbol) ==
    IF kind = "fast" THEN Fast_load(price_cache, symbol, hashseed) ELSE price_cache

\* fetch_quote(symbol) of the broker the run constructed
fetch_quote(symbol, fetched) ==
    IF kind = "backtest"
    THEN BT_quote(HistoricalAfter(symbol, fetched)[symbol], symbol, current_date)
    ELSE Fast_quote(PriceCacheAfter(symbol)[symbol], symbol, current_date)

\* place_order(symbol, qty, side, limit_price) of the broker the run constructed
place_order(symbol, qty, side, limit_price, fetched) ==
    LET price == fetch_quote(symbol, fetched).price
    IN  IF kind = "backtest"
        THEN BT_place_order(cash, positions, trade_history, current_date, price,
                            symbol, qty, side, limit_price)
        ELSE Fast_place_order(cash, positions, trade_history, current_date, price,
                              symbol, qty, side, limit_price)

NoCall ==
    [op |-> "none", symbol |-> "", side |-> "", qty |-> 0, limit_price |-> NoLimit,
     quote |-> 0, result |-> NoResult, value |-> 0, pre_cash |-> 0,
     pre_positions |-> EmptyMap, pre_trades |-> << >>, pre_date |-> 0]

\* the record of a call made in the current state
Call(op, symbol, side, qty, limit_price, quote, result, value) ==
    [op |-> op, symbol |-> symbol, side |-> side, qty |-> qty,
     limit_price |-> limit_price, quote |-> quote, result |-> result,
     value |-> value, pre_cash |-> cash, pre_positions |-> positions,
     pre_trades |-> trade_history, pre_date |-> current_date]

(***************************************************************************)
(* Inputs.                                                                 *)
(***************************************************************************)
InitialCash == {Money(10000)}

Order(qty, side, limit_price) == [qty |-> qty, side |-> side, limit_price |-> limit_price]

\* the orders tried: market and limit, within and beyond the cash or the holding,
\* and quantities that are not positive
Orders ==
    { Order(Shares(3), "buy", NoLimit), Order(Shares(3), "buy", Money(80)),
      Order(Shares(100), "buy", NoLimit), Order(Shares(0 - 1), "buy", NoLimit),
      Order(Shares(1), "sell", NoLimit), Order(Shares(100), "sell", NoLimit),
      Order(Shares(0 - 1), "sell", NoLimit) }

\* close_position's qty: None, or a quantity
CloseQtys == {[given |-> FALSE, qty |-> 0], [given |-> TRUE, qty |-> Shares(1)]}

\* the bars the data provider holds: AAA trades from day 0 with no bar on day 1,
\* BBB has no bar before day 1
MarketTable ==
    [s \in Symbols |->
        IF s = "AAA"
        THEN << Bar(0, Money(100), 1500), Bar(2, Money(120), 2500) >>
        ELSE << Bar(1, Money(50), 3000) >>]

(***************************************************************************)
(* Actions.                                                                *)
(***************************************************************************)
\* the strategy's and the drivers' state, which no broker call touches
\* the continuous driver's counters, the budget ledger and the preload
ledger_vars ==
    << calendar, day_count, current_month, budget_tracker, data_file, now_month, gathered,
       missing_symbols >>

strategy_vars ==
    << settings, elo_ratings, last_elo_match, stop_levels, highest_prices,
       partial_taken, portfolio_history, month_count, month_end, day_cursor,
       injected, initial_cash, metrics, lifetime, cycle, ledger_vars >>

Untouched ==
    UNCHANGED << kind, market, hashseed, peer_hashseed, peer_price_cache, strategy_vars >>

\* broker.place_order(symbol, qty, side, limit_price)
PlaceOrder ==
    /\ pc = "run" /\ orders < MaxOrders
    /\ \E symbol \in Symbols, o \in Orders : \E fetched \in FetchOutcomes(symbol) :
          LET qty == o.qty
              side == o.side
              limit_price == o.limit_price
              out == place_order(symbol, qty, side, limit_price, fetched)
          IN  /\ cash' = out.cash
              /\ positions' = out.positions
              /\ trade_history' = out.trade_history
              /\ historical_cache' = HistoricalAfter(symbol, fetched)
              /\ price_cache' = PriceCacheAfter(symbol)
              /\ last' = Call("place_order", symbol, side, qty, limit_price,
                              fetch_quote(symbol, fetched).price, out.result, 0)
    /\ orders' = orders + 1
    /\ UNCHANGED << pc, current_date, final_value >>
    /\ Untouched

\* broker.close_position(symbol, qty)
ClosePosition ==
    /\ pc = "run" /\ orders < MaxOrders
    /\ \E symbol \in Symbols, q \in CloseQtys :
          IF symbol \notin DOMAIN positions
          THEN /\ last' = Call("close_position", symbol, "sell", q.qty, NoLimit, 0,
                               OrderResult(symbol, 0, "sell", 0), 0)
               /\ UNCHANGED << cash, positions, trade_history, historical_cache,
                               price_cache >>
          ELSE LET qty_to_sell == IF q.given THEN q.qty ELSE positions[symbol].qty
                   out == place_order(symbol, qty_to_sell, "sell", NoLimit, TRUE)
               IN  /\ cash' = out.cash
                   /\ positions' = out.positions
                   /\ trade_history' = out.trade_history
                   /\ historical_cache' = HistoricalAfter(symbol, TRUE)
                   /\ price_cache' = PriceCacheAfter(symbol)
                   /\ last' = Call("close_position", symbol, "sell", qty_to_sell,
                                   NoLimit, fetch_quote(symbol, TRUE).price,
                                   out.result, 0)
    /\ orders' = orders + 1
    /\ UNCHANGED << pc, current_date, final_value >>
    /\ Untouched

\* the driver's clock step: broker.current_date += timedelta(days=1)
AdvanceDate ==
    /\ pc = "run" /\ current_date < end_date
    /\ current_date' = current_date + 1
    /\ last' = Call("advance_date", "", "", 0, NoLimit, 0, NoResult, 0)
    /\ UNCHANGED << pc, cash, positions, trade_history, historical_cache,
                    price_cache, orders, final_value >>
    /\ Untouched

\* broker.fetch_quote(symbol)
FetchQuote ==
    /\ pc = "run"
    /\ \E symbol \in Symbols : \E fetched \in FetchOutcomes(symbol) :
          /\ historical_cache' = HistoricalAfter(symbol, fetched)
          /\ price_cache' = PriceCacheAfter(symbol)
          /\ last' = Call("fetch_quote", symbol, "", 0, NoLimit,
                          fetch_quote(symbol, fetched).price, NoResult, 0)
    /\ UNCHANGED << pc, current_date, cash, positions, trade_history, orders,
                    final_value >>
    /\ Untouched

\* the price fetch_quote returns for each held symbol (held symbols are cached)
HeldQuotes == [s \in DOMAIN positions |-> fetch_quote(s, TRUE).price]

\* broker.get_portfolio_value()
GetPortfolioValue ==
    /\ pc = "run"
    /\ last' = Call("get_portfolio_value", "", "", 0, NoLimit, 0, NoResult,
                    get_portfolio_value(cash, positions, HeldQuotes))
    /\ UNCHANGED << pc, current_date, cash, positions, trade_history,
                    historical_cache, price_cache, orders, final_value >>
    /\ Untouched

\* run_backtest after the driver returns: final_value = await broker.get_portfolio_value()
Finish ==
    /\ pc = "run" /\ current_date >= end_date
    /\ pc' = "done"
    /\ final_value' = get_portfolio_value(cash, positions, HeldQuotes)
    /\ last' = Call("run_backtest", "", "", 0, NoLimit, 0, NoResult,
                    get_portfolio_value(cash, positions, HeldQuotes))
    /\ UNCHANGED << current_date, cash, positions, trade_history,
                    historical_cache, price_cache, orders >>
    /\ Untouched

\* a broker on its own: no Strategy and no driver loop have run
NoStrategy ==
    /\ settings = DefaultSettings
    /\ elo_ratings = [s \in Symbols |-> elo_initial_rating]
    /\ last_elo_match = 0
    /\ stop_levels = EmptyMap
    /\ highest_prices = EmptyMap
    /\ partial_taken = EmptyMap
    /\ portfolio_history = << >>
    /\ month_count = 0
    /\ month_end = start_date
    /\ day_cursor = start_date
    /\ injected = 0
    /\ initial_cash = cash
    /\ metrics = NoMetrics
    /\ NoLedger
    /\ lifetime = EmptyMap
    /\ cycle = NoCycle

Init ==
    /\ kind \in Kinds
    /\ pc = "run"
    /\ current_date = start_date
    /\ cash \in InitialCash
    /\ positions = EmptyMap
    /\ trade_history = << >>
    /\ market = MarketTable
    /\ historical_cache = (IF kind = "backtest" THEN market ELSE EmptyMap)
    /\ hashseed = 0
    /\ price_cache = EmptyMap
    /\ peer_hashseed = 0
    /\ peer_price_cache = EmptyMap
    /\ orders = 0
    /\ final_value = 0
    /\ last = NoCall
    /\ NoStrategy

Next ==
    \/ PlaceOrder
    \/ ClosePosition
    \/ AdvanceDate
    \/ GetPortfolioValue
    \/ Finish

Spec == Init /\ [][Next]_vars

(***************************************************************************)
(* Quote lookups over arbitrary cached bars, and two independent runs.     *)
(***************************************************************************)
\* the close and volume the provider reports for a symbol's bar of a given day
BarOn(symbol, date) ==
    Bar(date, Money(100) + Money(10) * date + (IF symbol = "AAA" THEN 0 ELSE Money(5)),
        1000 + 100 * date)

RECURSIVE BarsOf(_, _, _)
\* the bars of the days in `days`, oldest first, from day `date` on
BarsOf(symbol, days, date) ==
    IF date > end_date THEN << >>
    ELSE IF date \in days THEN << BarOn(symbol, date) >> \o BarsOf(symbol, days, date + 1)
    ELSE BarsOf(symbol, days, date + 1)

\* every daily history over the run's days, in the provider's order (by date)
Histories(symbol) == { BarsOf(symbol, days, start_date) : days \in SUBSET (start_date .. end_date) }

InitQuote ==
    /\ kind \in Kinds
    /\ pc = "run"
    /\ current_date = start_date
    /\ cash \in InitialCash
    /\ positions = EmptyMap
    /\ trade_history = << >>
    /\ market \in (IF kind = "backtest"
                   THEN { [s \in Symbols |-> IF s = "AAA" THEN a ELSE b] :
                            a \in Histories("AAA"), b \in Histories("BBB") }
                   ELSE { MarketTable })
    /\ historical_cache = EmptyMap
    /\ hashseed \in (IF kind = "fast" THEN HashSeeds ELSE {0})
    /\ price_cache = EmptyMap
    /\ peer_hashseed = 0
    /\ peer_price_cache = EmptyMap
    /\ orders = 0
    /\ final_value = 0
    /\ last = NoCall
    /\ NoStrategy

NextQuote ==
    \/ FetchQuote
    \/ AdvanceDate

SpecQuote == InitQuote /\ [][NextQuote]_vars

\* this process's broker generates (or finds cached) the series of a symbol
GenerateSeries ==
    /\ \E symbol \in Symbols :
          /\ price_cache' = Fast_load(price_cache, symbol, hashseed)
          /\ last' = Call("_generate_series", symbol, "", 0, NoLimit, 0, NoResult, 0)
    /\ UNCHANGED << kind, pc, current_date, cash, positions, trade_history, market,
                    historical_cache, hashseed, peer_hashseed, peer_price_cache,
                    orders, final_value, strategy_vars >>

\* the same call in the second process
PeerGenerateSeries ==
    /\ \E symbol \in Symbols :
          /\ peer_price_cache' = Fast_load(peer_price_cache, symbol, peer_hashseed)
          /\ last' = Call("peer._generate_series", symbol, "", 0, NoLimit, 0, NoResult, 0)
    /\ UNCHANGED << kind, pc, current_date, cash, positions, trade_history, market,
                    historical_cache, hashseed, price_cache, peer_hashseed,
                    orders, final_value, strategy_vars >>

InitSeed ==
    /\ kind = "fast"
    /\ pc = "run"
    /\ current_date = start_date
    /\ cash \in InitialCash
    /\ positions = EmptyMap
    /\ trade_history = << >>
    /\ market = MarketTable
    /\ historical_cache = EmptyMap
    /\ hashseed \in HashSeeds
    /\ price_cache = EmptyMap
    /\ peer_hashseed \in HashSeeds
    /\ peer_price_cache = EmptyMap
    /\ orders = 0
    /\ final_value = 0
    /\ last = NoCall
    /\ NoStrategy

NextSeed ==
    \/ GenerateSeries
    \/ PeerGenerateSeries

SpecSeed == InitSeed /\ [][NextSeed]_vars

(***************************************************************************)
(* Decision engine: exits (Strategy.plan_exits).  Fractions are compared   *)
(* exactly, by cross-multiplication, where the program compares floats.    *)
(***************************************************************************)
\* the bars the broker holds for a symbol (none when nothing is cached)
CachedBars(symbol) ==
    IF kind = "backtest"
    THEN (IF symbol \in DOMAIN historical_cache THEN historical_cache[symbol] ELSE << >>)
    ELSE (IF symbol \in DOMAIN price_cache THEN price_cache[symbol] ELSE << >>)

\* "pnl_pct >= threshold" with pnl_pct = (price - avg_price) / avg_price, 0 when
\* avg_price is not positive
PnlAtLeast(price, avg_price, threshold) ==
    IF avg_price > 0 THEN (price - avg_price) * 10000 >= threshold * avg_price
    ELSE 0 >= threshold

\* "pnl_pct <= threshold"
PnlAtMost(price, avg_price, threshold) ==
    IF avg_price > 0 THEN (price - avg_price) * 10000 <= threshold * avg_price
    ELSE 0 <= threshold

\* the strategy's three per-symbol maps
Tracking(highest, taken, stops) ==
    [highest_prices |-> highest, partial_taken |-> taken, stop_levels |-> stops]

\* "if pos.symbol not in self.highest_prices: ... = max(pos.avg_price, price)
\*  elif price > self.highest_prices[pos.symbol]: ... = price"
TrackPeak(highest, symbol, avg_price, price) ==
    IF symbol \notin DOMAIN highest THEN Put(highest, symbol, Max(avg_price, price))
    ELSE IF price > highest[symbol] THEN Put(highest, symbol, price)
    ELSE highest

\* Strategy._cleanup_position_tracking: pop the symbol from the three maps
cleanup_position_tracking(tr, symbol) ==
    Tracking(Del(tr.highest_prices, symbol), Del(tr.partial_taken, symbol),
             Del(tr.stop_levels, symbol))

\* what one position adds to a plan_exits result
Planned(decisions, tr) == [decisions |-> decisions, tracking |-> tr]

Sell(symbol, qty, reason) == Decision("sell", symbol, qty, reason, 0, 0)

\* "price <= highest * (1 - trailing_distance)"
AtTrailingStop(price, highest) ==
    price * 10000 <= highest * (10000 - trailing_stop_distance_pct)

\* a partial take-profit that leaves no mark
MarkPartialForgotten(taken, symbol) == taken

\* "self.partial_taken[pos.symbol] = True"
MarkPartial(taken, symbol) == Put(taken, symbol, TRUE)

\* a loop body that tests the partial take-profit before the full one
PositionExitPartialFirst(pos, price, tr, frac) ==
    LET symbol == pos.symbol
        tracked == [tr EXCEPT !.highest_prices =
                       TrackPeak(tr.highest_prices, symbol, pos.avg_price, price)]
        taken == symbol \in DOMAIN tracked.partial_taken /\ tracked.partial_taken[symbol]
    IN  IF PnlAtLeast(price, pos.avg_price, partial_take_profit_pct) /\ ~taken
        THEN Planned(<< Sell(symbol, (pos.qty * frac) \div 100, "partial_take_profit") >>,
                     [tracked EXCEPT !.partial_taken = Put(tracked.partial_taken, symbol, TRUE)])
        ELSE IF PnlAtLeast(price, pos.avg_price, take_profit_pct)
        THEN Planned(<< Sell(symbol, pos.qty, "take_profit") >>,
                     cleanup_position_tracking(tracked, symbol))
        ELSE Planned(<< >>, tracked)

\* a loop body whose take-profit branch does not "continue": the partial check
\* is evaluated after it as well
PositionExitFallThrough(pos, price, tr, frac) ==
    LET tracked == [tr EXCEPT !.highest_prices =
                       TrackPeak(tr.highest_prices, pos.symbol, pos.avg_price, price)]
        full == IF PnlAtLeast(price, pos.avg_price, take_profit_pct)
                THEN << Sell(pos.symbol, pos.qty, "take_profit") >> ELSE << >>
        part == IF PnlAtLeast(price, pos.avg_price, partial_take_profit_pct)
                THEN << Sell(pos.symbol, (pos.qty * frac) \div 100, "partial_take_profit") >>
                ELSE << >>
    IN  Planned(full \o part, cleanup_position_tracking(tracked, pos.symbol))

\* the body of plan_exits' loop for one position with a positive quote: the peak
\* update, then the four checks in order, each ending the iteration ("continue")
PositionExit(pos, price, tr, frac) ==
    LET symbol == pos.symbol
        tracked == [tr EXCEPT !.highest_prices =
                       TrackPeak(tr.highest_prices, symbol, pos.avg_price, price)]
        taken == symbol \in DOMAIN tracked.partial_taken /\ tracked.partial_taken[symbol]
        highest == tracked.highest_prices[symbol]
    IN  IF PnlAtLeast(price, pos.avg_price, take_profit_pct)
        THEN Planned(<< Sell(symbol, pos.qty, "take_profit") >>,
                     cleanup_position_tracking(tracked, symbol))
        ELSE IF PnlAtLeast(price, pos.avg_price, partial_take_profit_pct) /\ ~taken
        THEN Planned(<< Sell(symbol, (pos.qty * frac) \div 100, "partial_take_profit") >>,
                     [tracked EXCEPT !.partial_taken = MarkPartial(tracked.partial_taken, symbol)])
        ELSE IF /\ PnlAtLeast(price, pos.avg_price, trailing_stop_activation_pct)
                /\ AtTrailingStop(price, highest)
        THEN Planned(<< Sell(symbol, pos.qty, "trailing_stop") >>,
                     cleanup_position_tracking(tracked, symbol))
        ELSE IF PnlAtMost(price, pos.avg_price, 0 - stop_loss_pct)
        THEN Planned(<< Sell(symbol, pos.qty, "stop_loss") >>,
                     cleanup_position_tracking(tracked, symbol))
        ELSE Planned(<< >>, tracked)

RECURSIVE SelectHeld(_, _, _)
\* the symbols of a list that a position table holds, in the list's order
SelectHeld(universe, i, table) ==
    IF i > Len(universe) THEN << >>
    ELSE (IF universe[i] \in DOMAIN table THEN << universe[i] >> ELSE << >>)
         \o SelectHeld(universe, i + 1, table)

\* broker.list_positions().  The program's table is a dict and lists in insertion
\* order; the model's table keeps no order and lists in the universe's order.
list_positions(table) == SelectHeld(settings.universe, 1, table)

RECURSIVE plan_exits_from(_, _, _, _, _, _)
\* the loop of plan_exits from the i-th listed position on
plan_exits_from(held, i, table, quotes, frac, acc) ==
    IF i > Len(held) THEN acc
    ELSE LET pos == table[held[i]]
             price == quotes[pos.symbol]
             one == PositionExit(pos, price, acc.tracking, frac)
         IN  IF price <= 0
             THEN plan_exits_from(held, i + 1, table, quotes, frac, acc)
             ELSE plan_exits_from(held, i + 1, table, quotes, frac,
                                  Planned(acc.decisions \o one.decisions, one.tracking))

\* Strategy.plan_exits: the decisions and the tracking maps it leaves
plan_exits(table, quotes, tr) ==
    plan_exits_from(list_positions(table), 1, table, quotes,
                    settings.partial_take_profit_frac, Planned(<< >>, tr))

(***************************************************************************)
(* Decision engine: entries (Strategy.plan_buys).  RSI is in hundredths of *)
(* a point, momentum in thousandths.                                       *)
(***************************************************************************)
rsi_overbought == 7500        \* 75
min_momentum == 20            \* 0.02
momentum_lookback == 20
max_positions == 10

RECURSIVE SetSum(_, _)
\* the sum of f over the set S
SetSum(f, S) ==
    IF S = {} THEN 0
    ELSE LET x == CHOOSE y \in S : TRUE IN f[x] + SetSum(f, S \ {x})

\* seq[-n:]
LastN(seq, n) == IF Len(seq) <= n THEN seq ELSE SubSeq(seq, Len(seq) - n + 1, Len(seq))

\* a window that takes every bar from the cutoff on
fetch_historical_ahead(bars, date, days) ==
    LET FromCutoff(bar) == date - days <= bar.date
        window == SelectSeq(bars, FromCutoff)
    IN  LastN([i \in 1 .. Len(window) |-> window[i].close], days)

\* fetch_historical(symbol, days) of either broker: the closes of the bars dated
\* within [current_date - days, current_date], then "prices[-days:]"
fetch_historical(bars, date, days) ==
    LET InWindow(bar) == date - days <= bar.date /\ NotAfter(bar.date, date)
        window == SelectSeq(bars, InWindow)
    IN  LastN([i \in 1 .. Len(window) |-> window[i].close], days)

RECURSIVE SeqSum(_, _, _)
\* seq[from] + ... + seq[to]
SeqSum(seq, from, to) ==
    IF from > to THEN 0 ELSE seq[from] + SeqSum(seq, from + 1, to)

\* the close-to-close changes "prices[i] - prices[i - 1]" of the last n bars
Changes(prices, n) ==
    [i \in 1 .. n |-> prices[Len(prices) - n + i] - prices[Len(prices) - n + i - 1]]

\* Strategy._compute_indicators: the three indicators plan_buys reads (the
\* Bollinger bands and the slope are computed and not read)
compute_indicators(prices) ==
    IF Len(prices) < 20 THEN [sma20 |-> 0, rsi14 |-> 5000, atr14 |-> 0]
    ELSE LET changes == Changes(prices, 14)
             gains == SeqSum([i \in 1 .. 14 |-> Max(changes[i], 0)], 1, 14)
             losses == SeqSum([i \in 1 .. 14 |-> Max(0 - changes[i], 0)], 1, 14)
         IN  [sma20 |-> SeqSum(prices, Len(prices) - 19, Len(prices)) \div 20,
              rsi14 |-> IF losses = 0 THEN 10000
                        ELSE IF gains = 0 THEN 0
                        ELSE (10000 * gains) \div (gains + losses),
              atr14 |-> (gains + losses) \div 14]

\* how many tickers a stable descending sort by rating puts before the i-th
RankByRating(tickers, ratings, i) ==
    Cardinality({ j \in 1 .. Len(tickers) :
                    \/ ratings[tickers[j]] > ratings[tickers[i]]
                    \/ ratings[tickers[j]] = ratings[tickers[i]] /\ j < i })

\* sorted(tickers, key=rating, reverse=True): stable, highest rating first
SortByRating(tickers, ratings) ==
    [k \in 1 .. Len(tickers) |->
        tickers[CHOOSE i \in 1 .. Len(tickers) : RankByRating(tickers, ratings, i) = k - 1]]

\* plan_buys' filters for one symbol: the momentum score of a symbol that passes
\* all of them, 0 for a symbol that is skipped
EntryScore(symbol, table, quotes, portfolio_value) ==
    LET price == quotes[symbol]
        history == fetch_historical(CachedBars(symbol), current_date, 30)
        indicators == compute_indicators(history)
        base_price == IF Len(history) <= momentum_lookback THEN history[1]
                      ELSE history[Len(history) - momentum_lookback + 1]
        momentum == IF base_price > 0 THEN ((price - base_price) * 1000) \div base_price
                    ELSE 0
        too_large == /\ symbol \in DOMAIN table /\ portfolio_value > 0
                     /\ Notional(price, table[symbol].qty) * 100 > 15 * portfolio_value
    IN  IF price <= 0 THEN 0
        ELSE IF Len(history) < 20 THEN 0
        ELSE IF indicators.rsi14 > rsi_overbought THEN 0
        ELSE IF indicators.sma20 > 0 /\ price * 100 < indicators.sma20 * 95 THEN 0
        ELSE IF momentum < min_momentum THEN 0
        ELSE IF too_large THEN 0
        ELSE Max(100, momentum)

RECURSIVE ValidSymbols(_, _, _)
\* valid_symbols: the symbols of sorted_universe with a score, in order
ValidSymbols(sorted_universe, i, score) ==
    IF i > Len(sorted_universe) THEN << >>
    ELSE (IF score[sorted_universe[i]] > 0 THEN << sorted_universe[i] >> ELSE << >>)
         \o ValidSymbols(sorted_universe, i + 1, score)

\* the ATR-based stop of an entry at `price`: price - 1.5 x ATR14, 0 for None
EntryStop(symbol, price) ==
    LET history == fetch_historical(CachedBars(symbol), current_date, 20)
        atr == compute_indicators(history).atr14
    IN  IF Len(history) >= 14 /\ atr > 0 THEN price - (15 * atr) \div 10 ELSE 0

\* getattr(self.settings, name, default): a field a run does not set has the
\* default of Settings
Setting(name, default) == IF name \in DOMAIN settings THEN settings[name] ELSE default

\* round(budget_for_symbol / price, 4): the nearest quantity the model can
\* express, a tie going to the even one
RoundedQty(amount, price) ==
    LET q == (amount * 100) \div price
        twice == 2 * ((amount * 100) % price)
    IN  IF twice > price \/ (twice = price /\ q % 2 = 1) THEN q + 1 ELSE q

RECURSIVE AllocateEntries(_, _, _, _, _, _)
\* plan_buys' second loop, over valid_symbols[:max_picks]: each symbol's share of
\* the available cash by momentum weight, skipped below the minimum sizes
AllocateEntries(valid, i, score, total_momentum, available_cash, quotes) ==
    IF i > Min(Setting("max_positions", max_positions), Len(valid)) THEN << >>
    ELSE LET symbol == valid[i]
             price == quotes[symbol]
             budget_for_symbol == (available_cash * score[symbol]) \div total_momentum
             qty == RoundedQty(budget_for_symbol, price)
             rest == AllocateEntries(valid, i + 1, score, total_momentum,
                                     available_cash, quotes)
         IN  IF budget_for_symbol < Money(20) THEN rest
             ELSE IF qty <= 0 \/ Notional(price, qty) < Money(15) THEN rest
             ELSE << Decision("buy", symbol, qty, "momentum_dca", price,
                              EntryStop(symbol, price)) >> \o rest

\* "if winners_only_mode: sorted_universe = sorted_universe[:winners_count]";
\* no other mode is read
Candidates(sorted_universe) ==
    LET winners_count == Setting("elo_winners_count", 3)
    IN  IF ~Setting("elo_winners_only_mode", FALSE) THEN sorted_universe
        ELSE IF winners_count >= 0
        THEN SubSeq(sorted_universe, 1, Min(winners_count, Len(sorted_universe)))
        ELSE SubSeq(sorted_universe, 1, Max(Len(sorted_universe) + winners_count, 0))

\* Strategy.plan_buys on a broker with the given cash and position table
plan_buys(available_cash, table, quotes, ratings) ==
    LET sorted_universe == Candidates(SortByRating(settings.universe, ratings))
        portfolio_value ==
            SumHoldings(available_cash, table, quotes, DOMAIN table)
        score == [s \in Symbols |-> EntryScore(s, table, quotes, portfolio_value)]
        valid == ValidSymbols(sorted_universe, 1, score)
        total_momentum == SetSum(score, { valid[i] : i \in 1 .. Len(valid) })
    IN  IF available_cash < Money(50) THEN << >>
        ELSE IF valid = << >> THEN << >>
        ELSE AllocateEntries(valid, 1, score, total_momentum, available_cash, quotes)

(***************************************************************************)
(* Rating matches (Strategy.run_elo_matches, simple ELO).                  *)
(***************************************************************************)
\* the values "random.randint(0, max(0, len(available) // 2 - 1))" can return
PairIndexes(n) == 0 .. Max(0, n \div 2 - 1)

\* an update that credits the winner and leaves the loser's rating alone
EloUpdateWinnerOnly(ratings, winner, loser) ==
    [ratings EXCEPT ![winner] = @ + elo_k_factor]

\* "self.elo_ratings[winner] += k; self.elo_ratings[loser] -= k"
EloUpdate(ratings, winner, loser) ==
    LET credited == [ratings EXCEPT ![winner] = @ + elo_k_factor]
    IN  [credited EXCEPT ![loser] = @ - elo_k_factor]

\* one match of the round: the pair drawn from the sorted tickers, the two
\* scores, the winner and the ratings before and after the update
PlayMatch(ratings, sorted_tickers, pick, score) ==
    LET pair_index == pick * 2
        ticker1 == sorted_tickers[pair_index + 1]
        ticker2 == sorted_tickers[Min(pair_index + 1, Len(sorted_tickers) - 1) + 1]
        score1 == score[ticker1]
        score2 == score[ticker2]
        winner == IF score1 > score2 THEN ticker1 ELSE ticker2
        loser == IF score1 > score2 THEN ticker2 ELSE ticker1
    IN  [ticker1 |-> ticker1, ticker2 |-> ticker2, score1 |-> score1,
         score2 |-> score2, winner |-> winner, loser |-> loser,
         before |-> ratings, after |-> EloUpdate(ratings, winner, loser)]

RECURSIVE PlayMatches(_, _, _, _, _, _)
\* "for _ in range(matches_per_run)": picks[i] is the i-th match's random draw
PlayMatches(ratings, sorted_tickers, picks, i, score, matches) ==
    IF i > Len(picks) THEN matches
    ELSE LET m == PlayMatch(ratings, sorted_tickers, picks[i], score)
         IN  PlayMatches(m.after, sorted_tickers, picks, i + 1, score,
                         Append(matches, m))

\* a cadence test that also holds a call back when the counter equals the frequency
BeforeMatchRoundInclusive(counter) == counter <= settings.elo_match_frequency

\* "if self.last_elo_match < elo_match_frequency: return", on the incremented counter
BeforeMatchRound(counter) == counter < settings.elo_match_frequency

\* what run_elo_matches leaves: the ratings, the counter, the matches it played
\* and whether it reached the match round
Rated(ratings, counter, matches, round) ==
    [elo_ratings |-> ratings, last_elo_match |-> counter, matches |-> matches,
     round |-> round]

\* Strategy.run_elo_matches with glicko off.  The tickers are sorted once,
\* before the matches; score[t] is the score the round computes for ticker t.
run_elo_matches(ratings, counter, picks, score) ==
    LET tickers == settings.universe
        matches == PlayMatches(ratings, SortByRating(tickers, ratings), picks, 1,
                               score, << >>)
    IN  IF ~settings.elo_enabled THEN Rated(ratings, counter, << >>, FALSE)
        ELSE IF BeforeMatchRound(counter + 1)
        THEN Rated(ratings, counter + 1, << >>, FALSE)
        ELSE IF Len(tickers) < 2 THEN Rated(ratings, 0, << >>, TRUE)
        ELSE Rated(IF matches = << >> THEN ratings ELSE matches[Len(matches)].after,
                   0, matches, TRUE)

\* the draws of one call: one pair index per match of the round
Picks == [1 .. settings.elo_matches_per_run -> PairIndexes(Len(settings.universe))]

\* the legacy score (elo_multi_factor_scoring off): the unrealised P&L of the
\* held position in basis points, 0 for a symbol that is not held
pnl_score(symbol, table, quotes) ==
    IF symbol \in DOMAIN table /\ table[symbol].avg_price /= 0
    THEN ((quotes[symbol] - table[symbol].avg_price) * 10000) \div table[symbol].avg_price
    ELSE 0

(***************************************************************************)
(* A decision cycle (Strategy.execute) and the drivers' exit pass.         *)
(***************************************************************************)
\* the broker's fields as place_order reads them
BrokerNow == Outcome(cash, positions, trade_history, NoResult)

\* the price fetch_quote returns for each symbol at the current clock
QuotesNow == [s \in Symbols |-> fetch_quote(s, TRUE).price]

\* place_order on a broker whose fields are b
order_on(b, quotes, symbol, qty, side, limit_price) ==
    IF kind = "backtest"
    THEN BT_place_order(b.cash, b.positions, b.trade_history, current_date,
                        quotes[symbol], symbol, qty, side, limit_price)
    ELSE Fast_place_order(b.cash, b.positions, b.trade_history, current_date,
                          quotes[symbol], symbol, qty, side, limit_price)

\* one awaited order: the decision, the result and the cash around it
OrderEvent(dec, b, out) ==
    [decision |-> dec, result |-> out.result, pre_cash |-> b.cash, cash |-> out.cash,
     positions |-> out.positions]

RECURSIVE place_orders(_, _, _, _, _)
\* "for dec in decisions: await broker.place_order(...)": each order is placed on
\* the broker the previous one left
place_orders(decisions, i, b, quotes, events) ==
    IF i > Len(decisions) THEN [broker |-> b, orders |-> events]
    ELSE LET dec == decisions[i]
             out == order_on(b, quotes, dec.symbol, dec.qty, dec.action, dec.limit_price)
         IN  place_orders(decisions, i + 1, out, quotes,
                          Append(events, OrderEvent(dec, b, out)))

RECURSIVE PopStops(_, _, _)
\* "self.stop_levels.pop(dec.symbol, None)" after each exit order
PopStops(stops, decisions, i) ==
    IF i > Len(decisions) THEN stops
    ELSE PopStops(Del(stops, decisions[i].symbol), decisions, i + 1)

RECURSIVE SetStops(_, _, _)
\* "if result.qty > 0 and dec.stop_loss: self.stop_levels[dec.symbol] = dec.stop_loss"
SetStops(stops, events, i) ==
    IF i > Len(events) THEN stops
    ELSE SetStops(IF events[i].result.qty > 0 /\ events[i].decision.stop_loss /= 0
                  THEN Put(stops, events[i].decision.symbol, events[i].decision.stop_loss)
                  ELSE stops,
                  events, i + 1)

\* a position just entered: no partial exit decided, no price observed
Fresh == [partials |-> 0, peak |-> 0, activated |-> FALSE]

\* how many of the decisions are partial take-profits of a symbol
Partials(decisions, symbol) ==
    Cardinality({ i \in 1 .. Len(decisions) :
                    /\ decisions[i].symbol = symbol
                    /\ decisions[i].reason = "partial_take_profit" })

\* the record of each held position after plan_exits looked at it: the partial
\* exits decided since entry, the highest quote seen since entry, and whether
\* the P&L has reached the trailing activation threshold at some cycle
Observed(life, table, quotes, decisions) ==
    [s \in DOMAIN table |->
        LET old == IF s \in DOMAIN life THEN life[s] ELSE Fresh
        IN  IF quotes[s] <= 0 THEN old
            ELSE [partials |-> old.partials + Partials(decisions, s),
                  peak |-> Max(old.peak, quotes[s]),
                  activated |-> \/ old.activated
                                \/ PnlAtLeast(quotes[s], table[s].avg_price,
                                              trailing_stop_activation_pct)]]

\* the records after the cycle's orders: a position closed by the exits ends its
\* record, a position entered after that starts a fresh one
Lifetimes(life, after_exits, after_entries) ==
    [s \in DOMAIN after_entries |->
        IF s \in DOMAIN life /\ s \in DOMAIN after_exits THEN life[s] ELSE Fresh]

\* the record of a strategy call made in the current state; invocation counts
\* the calls of run_elo_matches so far, this one included
Cycle(op, quotes, exits, entries, events, elo, available_cash, exit_positions) ==
    [op |-> op, date |-> current_date, quotes |-> quotes, exits |-> exits,
     entries |-> entries, orders |-> events, matches |-> elo.matches,
     round |-> elo.round, available_cash |-> available_cash,
     exit_positions |-> exit_positions, pre_cash |-> cash,
     pre_positions |-> positions,
     pre_tracking |-> Tracking(highest_prices, partial_taken, stop_levels),
     pre_lifetime |-> lifetime, pre_ratings |-> elo_ratings,
     pre_last_elo_match |-> last_elo_match,
     invocation |-> cycle.invocation + (IF op = "plan_exits" THEN 0 ELSE 1)]

\* what a strategy call leaves: the broker, the tracking maps, the ratings, the
\* per-position records and the record of the call
Done(b, tr, elo, life, call) ==
    [broker |-> b, tracking |-> tr, elo |-> elo, lifetime |-> life, cycle |-> call]

\* plan_buys sizing from the cash the cycle started with
available_cash_before_exits(b, pre_cash) == pre_cash

\* "available_cash = getattr(broker, 'cash', ...)", read when plan_buys runs:
\* the cash of the broker the exit orders left
available_cash_of(b, pre_cash) == b.cash

\* Strategy.execute on a broker holding cash c: the rating matches, then the
\* exits, each placed in turn, then the entries planned from what the exits left
execute(c, picks) ==
    LET quotes == QuotesNow
        b == Outcome(c, positions, trade_history, NoResult)
        elo == run_elo_matches(elo_ratings, last_elo_match, picks,
                               [s \in Symbols |-> pnl_score(s, positions, quotes)])
        planned == plan_exits(positions, quotes,
                              Tracking(highest_prices, partial_taken, stop_levels))
        sold == place_orders(planned.decisions, 1, b, quotes, << >>)
        popped == PopStops(planned.tracking.stop_levels, planned.decisions, 1)
        available_cash == available_cash_of(sold.broker, c)
        entries == plan_buys(available_cash, sold.broker.positions, quotes,
                             elo.elo_ratings)
        bought == place_orders(entries, 1, sold.broker, quotes, << >>)
        stops == SetStops(popped, bought.orders, 1)
    IN  Done(bought.broker,
             [planned.tracking EXCEPT !.stop_levels = stops],
             elo,
             Lifetimes(Observed(lifetime, positions, quotes, planned.decisions),
                       sold.broker.positions, bought.broker.positions),
             [Cycle("execute", quotes, planned.decisions, entries,
                    sold.orders \o bought.orders, elo, available_cash,
                    sold.broker.positions) EXCEPT !.pre_cash = c])

\* a day step that runs the whole decision cycle, entries included
full_cycle_pass == execute(cash, CHOOSE picks \in Picks : TRUE)

\* the drivers' exit pass: plan_exits, then each decision placed as a sell
exit_pass ==
    LET quotes == QuotesNow
        planned == plan_exits(positions, quotes,
                              Tracking(highest_prices, partial_taken, stop_levels))
        sold == place_orders(planned.decisions, 1, BrokerNow, quotes, << >>)
        elo == Rated(elo_ratings, last_elo_match, << >>, FALSE)
    IN  Done(sold.broker, planned.tracking, elo,
             Lifetimes(Observed(lifetime, positions, quotes, planned.decisions),
                       sold.broker.positions, sold.broker.positions),
             Cycle("plan_exits", quotes, planned.decisions, << >>, sold.orders,
                   elo, 0, sold.broker.positions))

\* the assignments a strategy call makes to the broker and to the strategy
Apply(done) ==
    /\ cash' = done.broker.cash
    /\ positions' = done.broker.positions
    /\ trade_history' = done.broker.trade_history
    /\ highest_prices' = done.tracking.highest_prices
    /\ partial_taken' = done.tracking.partial_taken
    /\ stop_levels' = done.tracking.stop_levels
    /\ elo_ratings' = done.elo.elo_ratings
    /\ last_elo_match' = done.elo.last_elo_match
    /\ lifetime' = done.lifetime
    /\ cycle' = done.cycle

(***************************************************************************)
(* The decision engine over arbitrary price paths: a driver that, each day,*)
(* runs either a full decision cycle or the exit pass.                     *)
(***************************************************************************)
StrategyDays == 2     \* days after the start date on which the strategy runs

HistoryDays == 30     \* the longest window plan_buys reads: fetch_historical(symbol, days=30)

\* the provider's close of a symbol on a day up to the start date: a zigzag that
\* rises slowly, AAA around 100.00 and BBB around 50.00
DailyClose(symbol, date) ==
    (IF symbol = "AAA" THEN 2 ELSE 1)
        * (5000 + 10 * date - (IF date % 2 = 0 THEN 0 ELSE 130))

\* the daily bars of a symbol from day `from` to day `to`
DailyBars(symbol, from, to) ==
    [i \in 1 .. (to - from + 1) |-> Bar(from + i - 1, DailyClose(symbol, from + i - 1), 1000)]

\* the closes a later day can bring: for AAA, bought near 100.00, a fall below
\* the stop-loss, levels around the trailing activation, levels above the
\* partial take-profit and one above the take-profit; for BBB, bought near
\* 50.00, no move or a rise above the take-profit
Closes(symbol) ==
    IF symbol = "AAA" THEN {8800, 10640, 10820, 11200, 11400, 11600}
    ELSE {5000, 6000}

\* the Settings the strategy is run with: the defaults, a partial take-profit
\* of the whole position, and the rating system on with a match every 2 calls
StrategySettings ==
    { DefaultSettings,
      Settings(<< "AAA", "BBB" >>, FALSE, 5, 1, 100, 12),
      Settings(<< "AAA", "BBB" >>, TRUE, 2, 1, 50, 12) }

\* the driver moves the clock to the next day ("broker.current_date = day_cursor");
\* the provider's bars of that day are chosen now, no call having read them before
NewDay ==
    /\ pc = "run" /\ current_date < start_date + StrategyDays
    /\ cycle.date = current_date
    /\ current_date' = current_date + 1
    /\ \E close \in [Symbols -> UNION { Closes(s) : s \in Symbols }] :
          /\ \A s \in Symbols : close[s] \in Closes(s)
          /\ market' = [s \in Symbols |->
                           Append(market[s], Bar(current_date + 1, close[s], 1000))]
    /\ historical_cache' = market'
    /\ UNCHANGED << kind, pc, cash, positions, trade_history, hashseed, price_cache,
                    peer_hashseed, peer_price_cache, orders, final_value, last,
                    strategy_vars >>

\* what no strategy call touches
StrategyFrame ==
    UNCHANGED << kind, pc, current_date, market, historical_cache, hashseed,
                 price_cache, peer_hashseed, peer_price_cache, orders, final_value,
                 last, settings, portfolio_history, month_count, month_end,
                 day_cursor, injected, initial_cash, metrics, ledger_vars >>

\* results = await strategy.execute(broker)
Execute ==
    /\ pc = "run" /\ cycle.date < current_date
    /\ \E picks \in Picks : Apply(execute(cash, picks))
    /\ StrategyFrame

\* the exit pass of a day without a decision cycle: plan_exits, then the sells
DayExits ==
    /\ pc = "run" /\ cycle.date < current_date
    /\ Apply(exit_pass)
    /\ StrategyFrame

InitStrategy ==
    /\ kind = "backtest"
    /\ pc = "run"
    /\ current_date = start_date
    /\ cash \in InitialCash
    /\ positions = EmptyMap
    /\ trade_history = << >>
    /\ market = [s \in Symbols |-> DailyBars(s, start_date - HistoryDays, start_date)]
    /\ historical_cache = market
    /\ hashseed = 0
    /\ price_cache = EmptyMap
    /\ peer_hashseed = 0
    /\ peer_price_cache = EmptyMap
    /\ orders = 0
    /\ final_value = 0
    /\ last = NoCall
    /\ settings \in StrategySettings
    /\ elo_ratings = [s \in Symbols |-> elo_initial_rating]
    /\ last_elo_match = 0
    /\ stop_levels = EmptyMap
    /\ highest_prices = EmptyMap
    /\ partial_taken = EmptyMap
    /\ portfolio_history = << >>
    /\ month_count = 0
    /\ month_end = start_date
    /\ day_cursor = start_date
    /\ injected = 0
    /\ initial_cash = cash
    /\ metrics = NoMetrics
    /\ NoLedger
    /\ lifetime = EmptyMap
    /\ cycle = NoCycle

NextStrategy ==
    \/ NewDay
    \/ Execute
    \/ DayExits

SpecStrategy == InitStrategy /\ [][NextStrategy]_vars

(***************************************************************************)
(* The rating system on its own: repeated calls of run_elo_matches, the    *)
(* scores of each round being whatever the scoring returns for the tickers.*)
(***************************************************************************)
MaxEloCalls == 3      \* calls of run_elo_matches per run

EloTickers == << "AAA", "BBB", "CCC", "DDD" >>

\* the scores a round can compute for a ticker (0 is the unscoreable ticker)
Scores == {-1, 0, 1}

\* universes of 2, 3 and 4 tickers; a round at every call or every second call;
\* one or two matches per round; the rating system on, and off
EloSettings ==
    { Settings(SubSeq(EloTickers, 1, 2), TRUE, 1, 1, 50, 12),
      Settings(SubSeq(EloTickers, 1, 3), TRUE, 1, 2, 50, 12),
      Settings(EloTickers, TRUE, 2, 2, 50, 12),
      Settings(SubSeq(EloTickers, 1, 2), FALSE, 1, 1, 50, 12) }

\* the keys of self.elo_ratings: the symbols of the universe
Instruments == { settings.universe[i] : i \in DOMAIN settings.universe }

\* await strategy.run_elo_matches(broker)
RunEloMatches ==
    /\ pc = "run" /\ cycle.invocation < MaxEloCalls
    /\ \E picks \in Picks, score \in [Instruments -> Scores] :
          LET elo == run_elo_matches(elo_ratings, last_elo_match, picks, score)
          IN  /\ elo_ratings' = elo.elo_ratings
              /\ last_elo_match' = elo.last_elo_match
              /\ cycle' = Cycle("run_elo_matches", EmptyMap, << >>, << >>, << >>,
                                elo, 0, positions)
    /\ UNCHANGED << kind, pc, current_date, cash, positions, trade_history, market,
                    historical_cache, hashseed, price_cache, peer_hashseed,
                    peer_price_cache, orders, final_value, last, settings,
                    stop_levels, highest_prices, partial_taken, portfolio_history,
                    month_count, month_end, day_cursor, injected, initial_cash,
                    metrics, lifetime, ledger_vars >>

InitElo ==
    /\ kind = "backtest"
    /\ pc = "run"
    /\ current_date = start_date
    /\ cash \in InitialCash
    /\ positions = EmptyMap
    /\ trade_history = << >>
    /\ market = [s \in Symbols |-> << >>]
    /\ historical_cache = EmptyMap
    /\ hashseed = 0
    /\ price_cache = EmptyMap
    /\ peer_hashseed = 0
    /\ peer_price_cache = EmptyMap
    /\ orders = 0
    /\ final_value = 0
    /\ last = NoCall
    /\ settings \in EloSettings
    /\ elo_ratings = [t \in Instruments |-> elo_initial_rating]
    /\ last_elo_match = 0
    /\ stop_levels = EmptyMap
    /\ highest_prices = EmptyMap
    /\ partial_taken = EmptyMap
    /\ portfolio_history = << >>
    /\ month_count = 0
    /\ month_end = start_date
    /\ day_cursor = start_date
    /\ injected = 0
    /\ initial_cash = cash
    /\ metrics = NoMetrics
    /\ NoLedger
    /\ lifetime = EmptyMap
    /\ cycle = NoCycle

NextElo == RunEloMatches

SpecElo == InitElo /\ [][NextElo]_vars

(***************************************************************************)
(* The monthly driver (_run_monthly_backtest) and the report of            *)
(* run_backtest, on a preloaded BacktestBroker.  pc is the driver's        *)
(* position: "loop" at the head of the month loop, "days" at the head of   *)
(* the day loop, "exits" in its body, "done" after the report.             *)
(***************************************************************************)
MaxMonths == 2        \* the longest runs, besides the 12-month run

DaysPerMonth == 30    \* timedelta(days=30)

\* the months argument of the runs
RunMonths == (1 .. MaxMonths) \cup {12}

MonthlySettings == { Settings(<< "AAA", "BBB" >>, FALSE, 5, 1, 50, m) : m \in RunMonths }

\* end_date = start_date + timedelta(days=months * 30); a driver called with an
\* end date of its own runs extra_days longer
EndOfRun ==
    start_date + settings.months * DaysPerMonth
        + (IF "extra_days" \in DOMAIN settings THEN settings.extra_days ELSE 0)

\* a loop test that also runs a month that starts on the end date
MonthsRemainInclusive(date) == date <= EndOfRun

\* "while broker.current_date < end_date"
MonthsRemain(date) == date < EndOfRun

\* a month that ends on the day it starts
MonthEndStuck(month_start) == Min(month_start, EndOfRun)

\* month_end = min(month_start + timedelta(days=30), end_date)
MonthEnd(month_start) == Min(month_start + DaysPerMonth, EndOfRun)

\* the entry record_portfolio_snapshot appends
Snapshot(date, c, table) == [date |-> date, cash |-> c, positions |-> table]

(***************************************************************************)
(* The metrics (calculate_performance_metrics).  Percentages are in        *)
(* tenths of a percent, returns of the equity curve in thousandths,        *)
(* ratios in hundredths.  A division is a record: whether it divided by    *)
(* zero (Python raises ZeroDivisionError) and its value.                   *)
(***************************************************************************)
Quot(a, b) ==
    IF b = 0 THEN [zero_division |-> TRUE, value |-> 0]
    ELSE [zero_division |-> FALSE, value |-> a \div b]

\* a value computed without a division
Plain(value) == [zero_division |-> FALSE, value |-> value]

\* "pnl" in trade
HasPnl(trade) == "pnl" \in DOMAIN trade

\* t.get("pnl", 0)
PnlOf(trade) == IF HasPnl(trade) THEN trade.pnl ELSE 0

\* a total return computed whatever was contributed
total_return_unguarded(net_profit, total_contributed) ==
    Quot(net_profit * 1000, total_contributed)

\* total_return = (net_profit / total_contributed * 100) if total_contributed > 0 else 0.0
total_return_of(net_profit, total_contributed) ==
    IF total_contributed > 0 THEN Quot(net_profit * 1000, total_contributed)
    ELSE Plain(0)

RECURSIVE EquityCurve(_, _, _)
\* the realised-equity curve from the i-th trade on: the running value after
\* each trade that carries a pnl
EquityCurve(trades, i, equity) ==
    IF i > Len(trades) THEN << >>
    ELSE IF Lower(trades[i].side) /= "buy" /\ HasPnl(trades[i])
    THEN << equity + trades[i].pnl >> \o EquityCurve(trades, i + 1, equity + trades[i].pnl)
    ELSE EquityCurve(trades, i + 1, equity)

\* portfolio_values (and equity_curve): the initial value, then the curve
portfolio_values_of(initial_value, trades) ==
    << initial_value >> \o EquityCurve(trades, 1, initial_value)

RECURSIVE Drawdown(_, _, _, _)
\* "for value in portfolio_values": the running peak and the largest drawdown
Drawdown(values, i, peak, worst) ==
    IF i > Len(values) THEN worst
    ELSE LET top == Max(peak, values[i])
             drawdown == IF top > 0 THEN Quot((top - values[i]) * 1000, top)
                         ELSE Plain(0)
         IN  Drawdown(values, i + 1, top,
                      [zero_division |-> worst.zero_division \/ drawdown.zero_division,
                       value |-> Max(worst.value, drawdown.value)])

\* a drawdown that is reported as computed
Uncapped(drawdown) == drawdown

\* max_drawdown = min(max_drawdown, 100.0)
Capped(drawdown) == [drawdown EXCEPT !.value = Min(@, 1000)]

\* sum(t.get("pnl", 0) for t in trade_history if t.get("pnl", 0) > 0), and the
\* count of those trades; sign is 1 for the wins and -1 for the losses
PnlTotal(trades, sign) ==
    SetSum([i \in DOMAIN trades |-> PnlOf(trades[i])],
           { i \in DOMAIN trades : PnlOf(trades[i]) * sign > 0 })

PnlCount(trades, sign) ==
    Cardinality({ i \in DOMAIN trades : PnlOf(trades[i]) * sign > 0 })

\* "x / y if y > 0 else float('inf') if x > 0 else 0"
RatioOrInf(x, y) ==
    IF y > 0 THEN Quot(x * 100, y) @@ [inf |-> FALSE]
    ELSE Plain(0) @@ [inf |-> x > 0]

RECURSIVE Returns(_, _)
\* the returns between consecutive points of the curve whose left one is positive
Returns(curve, i) ==
    IF i > Len(curve) THEN << >>
    ELSE (IF curve[i - 1] > 0
          THEN << Quot((curve[i] - curve[i - 1]) * 1000, curve[i - 1]) >>
          ELSE << >>) \o Returns(curve, i + 1)

RECURSIVE SqrtIn(_, _, _)
\* math.sqrt, rounded down: the root of n between lo and hi
SqrtIn(n, lo, hi) ==
    IF lo >= hi THEN lo
    ELSE LET mid == (lo + hi + 1) \div 2
         IN  IF mid * mid <= n THEN SqrtIn(n, mid, hi) ELSE SqrtIn(n, lo, mid - 1)

\* math.sqrt(252), in ten-thousandths
SQRT_252_E4 == 158745

\* volatility_annual and sharpe_ratio of the curve
risk_of(initial_value, curve) ==
    LET returns == Returns(curve, 2)
        n == Len(returns)
        total == SetSum([i \in 1 .. n |-> returns[i].value], 1 .. n)
        avg_ret == Quot(total, n)
        variance == Quot(SetSum([i \in 1 .. n |->
                                    (returns[i].value - avg_ret.value)
                                        * (returns[i].value - avg_ret.value)],
                                1 .. n), n)
        std_dev == SqrtIn(variance.value, 0, 46340)
        sharpe == IF std_dev > 0
                  THEN Quot((avg_ret.value * 252 - 20) * 100,
                            (std_dev * SQRT_252_E4) \div 10000)
                  ELSE Plain(0)
        divided == \/ \E i \in 1 .. n : returns[i].zero_division
                   \/ avg_ret.zero_division \/ variance.zero_division
                   \/ sharpe.zero_division
    IN  IF Len(curve) > 1 /\ initial_value > 0 /\ returns /= << >>
        THEN [zero_division |-> divided,
              volatility_annual |-> Min((std_dev * SQRT_252_E4) \div 10000, 10000),
              sharpe_ratio |-> sharpe.value]
        ELSE [zero_division |-> FALSE, volatility_annual |-> 0, sharpe_ratio |-> 0]

\* calculate_performance_metrics: the fields of the report that depend on a
\* division, the capital contributed and the net profit
calculate_performance_metrics(initial_value, value, trades, budget, months) ==
    LET total_contributed == initial_value + budget * months
        net_profit == value - total_contributed
        total_return == total_return_of(net_profit, total_contributed)
        curve == portfolio_values_of(initial_value, trades)
        max_drawdown == Capped(Drawdown(curve, 1, initial_value, Plain(0)))
        winning_trades == PnlCount(trades, 1)
        losing_trades == PnlCount(trades, -1)
        total_wins == PnlTotal(trades, 1)
        total_losses == Abs(PnlTotal(trades, -1))
        win_rate == IF winning_trades + losing_trades > 0
                    THEN Quot(winning_trades * 1000, winning_trades + losing_trades)
                    ELSE Plain(0)
        avg_win == IF winning_trades > 0 THEN Quot(total_wins, winning_trades)
                   ELSE Plain(0)
        avg_loss == IF losing_trades > 0 THEN Quot(total_losses, losing_trades)
                    ELSE Plain(0)
        profit_factor == RatioOrInf(total_wins, total_losses)
        win_loss_ratio == RatioOrInf(avg_win.value, avg_loss.value)
        risk == risk_of(initial_value, curve)
    IN  [initial_value |-> initial_value, final_value |-> value,
         total_contributed |-> total_contributed,
         net_profit |-> net_profit,
         total_return_pct |-> total_return.value,
         max_drawdown_pct |-> max_drawdown.value,
         win_rate_pct |-> win_rate.value,
         profit_factor |-> [inf |-> profit_factor.inf, value |-> profit_factor.value],
         volatility_annual |-> risk.volatility_annual,
         sharpe_ratio |-> risk.sharpe_ratio,
         equity_points |-> Len(curve),
         zero_division |->
             \/ total_return.zero_division \/ max_drawdown.zero_division
             \/ win_rate.zero_division \/ avg_win.zero_division
             \/ avg_loss.zero_division \/ profit_factor.zero_division
             \/ win_loss_ratio.zero_division \/ risk.zero_division]

\* what the monthly driver and the strategy never write
DriverFrame ==
    UNCHANGED << kind, market, historical_cache, hashseed, price_cache, peer_hashseed,
                 peer_price_cache, orders, last, settings, initial_cash, ledger_vars >>

\* a strategy call followed by broker.record_portfolio_snapshot()
Recorded(done) ==
    /\ Apply(done)
    /\ portfolio_history' =
          Append(portfolio_history,
                 Snapshot(current_date, done.broker.cash, done.broker.positions))

\* one pass of the month loop up to the day loop: the budget is added to cash,
\* the strategy runs a full cycle, the portfolio is recorded
MonthBegin ==
    /\ pc = "loop" /\ MonthsRemain(current_date)
    /\ month_count' = month_count + 1
    /\ month_end' = MonthEnd(current_date)
    /\ injected' = injected + 1
    /\ \E picks \in Picks : Recorded(execute(cash + monthly_budget, picks))
    /\ day_cursor' = current_date + 1
    /\ pc' = "days"
    /\ UNCHANGED << current_date, final_value, metrics >>
    /\ DriverFrame

\* "while day_cursor < month_end: broker.current_date = day_cursor"
DayBegin ==
    /\ pc = "days" /\ day_cursor < month_end
    /\ current_date' = day_cursor
    /\ pc' = "exits"
    /\ UNCHANGED << cash, positions, trade_history, final_value, metrics, elo_ratings,
                    last_elo_match, stop_levels, highest_prices, partial_taken,
                    portfolio_history, month_count, month_end, day_cursor, injected,
                    lifetime, cycle >>
    /\ DriverFrame

\* the body of the day loop: the exit pass, the snapshot, the next day
MidMonthExits ==
    /\ pc = "exits"
    /\ Recorded(exit_pass)
    /\ day_cursor' = day_cursor + 1
    /\ pc' = "days"
    /\ UNCHANGED << current_date, final_value, metrics, month_count, month_end, injected >>
    /\ DriverFrame

\* "broker.current_date = month_end; broker.record_portfolio_snapshot()"
MonthClose ==
    /\ pc = "days" /\ ~(day_cursor < month_end)
    /\ current_date' = month_end
    /\ portfolio_history' = Append(portfolio_history, Snapshot(month_end, cash, positions))
    /\ pc' = "loop"
    /\ UNCHANGED << cash, positions, trade_history, final_value, metrics, elo_ratings,
                    last_elo_match, stop_levels, highest_prices, partial_taken,
                    month_count, month_end, day_cursor, injected, lifetime, cycle >>
    /\ DriverFrame

\* after the loop: final_value and the metrics of run_backtest
Report ==
    /\ pc \in {"loop", "scan"} /\ ~MonthsRemain(current_date)
    /\ final_value' = get_portfolio_value(cash, positions, HeldQuotes)
    /\ metrics' = calculate_performance_metrics(initial_cash, final_value', trade_history,
                                                monthly_budget, settings.months)
    /\ pc' = "done"
    /\ UNCHANGED << current_date, cash, positions, trade_history, elo_ratings,
                    last_elo_match, stop_levels, highest_prices, partial_taken,
                    portfolio_history, month_count, month_end, day_cursor, injected,
                    lifetime, cycle >>
    /\ DriverFrame

InitMonthly ==
    /\ kind = "backtest"
    /\ pc = "loop"
    /\ current_date = start_date
    /\ cash \in InitialCash
    /\ positions = EmptyMap
    /\ trade_history = << >>
    /\ settings \in MonthlySettings
    /\ market = [s \in Symbols |-> DailyBars(s, start_date - HistoryDays, EndOfRun)]
    /\ historical_cache = market
    /\ hashseed = 0
    /\ price_cache = EmptyMap
    /\ peer_hashseed = 0
    /\ peer_price_cache = EmptyMap
    /\ orders = 0
    /\ final_value = 0
    /\ last = NoCall
    /\ elo_ratings = [s \in Symbols |-> elo_initial_rating]
    /\ last_elo_match = 0
    /\ stop_levels = EmptyMap
    /\ highest_prices = EmptyMap
    /\ partial_taken = EmptyMap
    /\ portfolio_history = << >>
    /\ month_count = 0
    /\ month_end = start_date
    /\ day_cursor = start_date
    /\ injected = 0
    /\ initial_cash = cash
    /\ metrics = NoMetrics
    /\ NoLedger
    /\ lifetime = EmptyMap
    /\ cycle = NoCycle

NextMonthly ==
    \/ MonthBegin
    \/ DayBegin
    \/ MidMonthExits
    \/ MonthClose
    \/ Report

SpecMonthly == InitMonthly /\ [][NextMonthly]_vars

(***************************************************************************)
(* The stand-alone tools: the budget ledger, the metrics, the indicators   *)
(* and the preload run on their own inputs; the broker and the strategy    *)
(* stay as constructed.                                                    *)
(***************************************************************************)
parked_vars ==
    << kind, current_date, cash, positions, hashseed, price_cache, peer_hashseed,
       peer_price_cache, orders, elo_ratings, last_elo_match, stop_levels,
       highest_prices, partial_taken, portfolio_history, month_count, month_end,
       day_cursor, injected, lifetime, cycle, calendar, day_count, current_month >>

Parked ==
    /\ kind = "backtest"
    /\ current_date = start_date
    /\ cash = 0
    /\ positions = EmptyMap
    /\ hashseed = 0
    /\ price_cache = EmptyMap
    /\ peer_hashseed = 0
    /\ peer_price_cache = EmptyMap
    /\ orders = 0
    /\ elo_ratings = [s \in Symbols |-> elo_initial_rating]
    /\ last_elo_match = 0
    /\ stop_levels = EmptyMap
    /\ highest_prices = EmptyMap
    /\ partial_taken = EmptyMap
    /\ portfolio_history = << >>
    /\ month_count = 0
    /\ month_end = start_date
    /\ day_cursor = start_date
    /\ injected = 0
    /\ lifetime = EmptyMap
    /\ cycle = NoCycle
    /\ calendar = NoCalendar
    /\ day_count = 0
    /\ current_month = 0

(***************************************************************************)
(* The budget ledger (BudgetTracker).  A month is the number of a calendar *)
(* month, the "%Y-%m" string of the program; 0 is the empty string.        *)
(***************************************************************************)
MaxLedgerTrades == 2  \* trades recorded per run
MaxNowMonth == 3      \* the wall clock runs over the months 1 .. MaxNowMonth

\* the dataclass Trade
Trade(timestamp, symbol, side, qty, price, amount, type) ==
    [timestamp |-> timestamp, symbol |-> symbol, side |-> side, qty |-> qty,
     price |-> price, amount |-> amount, type |-> type]

\* the tracker object and its file, as the methods read and write them
Ledger(tracker, file) == [tracker |-> tracker, file |-> file]

\* a reset that also drops the trade history
Tracker_reset_all(tracker, now) ==
    [current_month |-> now, monthly_spent |-> 0, trades |-> << >>]

\* BudgetTracker._reset_month
Tracker_reset_month(tracker, now) ==
    [tracker EXCEPT !.current_month = now, !.monthly_spent = 0]

\* BudgetTracker._save: what json.dump writes
Tracker_save(tracker) ==
    [exists |-> TRUE, current_month |-> tracker.current_month,
     monthly_spent |-> tracker.monthly_spent, trades |-> tracker.trades]

\* BudgetTracker._load on a freshly constructed tracker
Tracker_load(file, now) ==
    IF ~file.exists THEN Tracker_reset_month(NoTracker, now)
    ELSE LET read == [current_month |-> file.current_month,
                      monthly_spent |-> file.monthly_spent, trades |-> file.trades]
         IN  IF read.current_month /= now THEN Tracker_reset_month(read, now)
             ELSE read

\* BudgetTracker.reset_month: _reset_month, then _save
reset_month(l, now) ==
    LET tracker == Tracker_reset_month(l.tracker, now)
    IN  Ledger(tracker, Tracker_save(tracker))

\* BudgetTracker.get_available_budget: the ledger it leaves and what it returns
get_available_budget(l, now) ==
    LET rolled == IF l.tracker.current_month /= now THEN reset_month(l, now) ELSE l
    IN  [ledger |-> rolled,
         value |-> Max(0, monthly_budget - rolled.tracker.monthly_spent)]

\* BudgetTracker.record_trade: append, count a buy, save, then the budget read
\* of the log line
record_trade(l, trade, now) ==
    LET tracker == [l.tracker EXCEPT
                       !.trades = Append(@, trade),
                       !.monthly_spent =
                           @ + (IF Lower(trade.side) = "buy" THEN trade.amount ELSE 0)]
    IN  get_available_budget(Ledger(tracker, Tracker_save(tracker)), now).ledger

\* the tracker of the running process and the file on disk
LedgerNow == Ledger(budget_tracker, data_file)

\* the record of a call on the tracker: the state it found and what it returned
BudgetCall(op, trade, value) ==
    [op |-> op, trade |-> trade, value |-> value, pre_tracker |-> budget_tracker,
     pre_file |-> data_file, now |-> now_month]

\* the trades the callers record
LedgerTrades ==
    { Trade(0, "AAA", side, Shares(1), amount, amount, "monthly_dca") :
        side \in {"buy", "sell", "BUY"}, amount \in {Money(50), Money(200)} }

BudgetFrame ==
    UNCHANGED << trade_history, market, historical_cache, final_value, settings,
                 initial_cash, metrics, gathered, missing_symbols, parked_vars >>

\* BudgetTracker(monthly_budget): __init__ and _load, when a process starts
Construct ==
    /\ pc = "down"
    /\ budget_tracker' = Tracker_load(data_file, now_month)
    /\ last' = BudgetCall("load", << >>, 0)
    /\ pc' = "up"
    /\ UNCHANGED << data_file, now_month >>
    /\ BudgetFrame

\* the process ends; the file stays
Shutdown ==
    /\ pc = "up"
    /\ budget_tracker' = NoTracker
    /\ last' = BudgetCall("exit", << >>, 0)
    /\ pc' = "down"
    /\ UNCHANGED << data_file, now_month >>
    /\ BudgetFrame

\* budget_tracker.record_trade(trade)
RecordTrade ==
    /\ pc = "up" /\ Len(budget_tracker.trades) < MaxLedgerTrades
    /\ \E trade \in LedgerTrades :
          LET l == record_trade(LedgerNow, trade, now_month)
          IN  /\ budget_tracker' = l.tracker
              /\ data_file' = l.file
              /\ last' = BudgetCall("record_trade", trade, 0)
    /\ UNCHANGED << pc, now_month >>
    /\ BudgetFrame

\* budget_tracker.get_available_budget()
GetAvailableBudget ==
    /\ pc = "up"
    /\ LET got == get_available_budget(LedgerNow, now_month)
       IN  /\ budget_tracker' = got.ledger.tracker
           /\ data_file' = got.ledger.file
           /\ last' = BudgetCall("get_available_budget", << >>, got.value)
    /\ UNCHANGED << pc, now_month >>
    /\ BudgetFrame

\* budget_tracker.reset_month()
ResetMonth ==
    /\ pc = "up"
    /\ LET l == reset_month(LedgerNow, now_month)
       IN  /\ budget_tracker' = l.tracker
           /\ data_file' = l.file
    /\ last' = BudgetCall("reset_month", << >>, 0)
    /\ UNCHANGED << pc, now_month >>
    /\ BudgetFrame

\* the wall clock passes into the next month
NextMonthBegins ==
    /\ now_month < MaxNowMonth
    /\ now_month' = now_month + 1
    /\ last' = BudgetCall("clock", << >>, 0)
    /\ UNCHANGED << pc, budget_tracker, data_file >>
    /\ BudgetFrame

InitBudget ==
    /\ Parked
    /\ pc = "down"
    /\ trade_history = << >>
    /\ market = EmptyMap
    /\ historical_cache = EmptyMap
    /\ final_value = 0
    /\ last = NoCall
    /\ settings = DefaultSettings
    /\ initial_cash = 0
    /\ metrics = NoMetrics
    /\ budget_tracker = NoTracker
    /\ data_file = NoFile
    /\ now_month = 1
    /\ gathered = << >>
    /\ missing_symbols = << >>

NextBudget ==
    \/ Construct
    \/ Shutdown
    \/ RecordTrade
    \/ GetAvailableBudget
    \/ ResetMonth
    \/ NextMonthBegins

SpecBudget == InitBudget /\ [][NextBudget]_vars

(***************************************************************************)
(* The continuous driver (_run_continuous_backtest) and both drivers       *)
(* called with any end date.  pc is "begin" before the first injection and *)
(* "scan" at the head of the day loop.  Years have 365 days.               *)
(***************************************************************************)
ExtraDays == 7        \* a run that ends this many days after a month boundary

\* the hour of the simulated morning scan: "scan_hour = 15"
scan_hour == 15

\* the days of the calendar months, January first
MonthLengths == << 31, 28, 31, 30, 31, 30, 31, 31, 30, 31, 30, 31 >>

\* months are numbered on through the years
DaysIn(month) == MonthLengths[((month - 1) % 12) + 1]

RECURSIVE MonthAfter(_, _, _)
\* the month of the day that comes n days after the day-th day of a month
MonthAfter(month, day, n) ==
    IF day + n <= DaysIn(month) THEN month
    ELSE MonthAfter(month + 1, 1, n - (DaysIn(month) - day + 1))

\* (current_day.year, current_day.month)
MonthOf(date) == MonthAfter(calendar.month, calendar.day, date - start_date)

\* current_day.weekday(): 0 is Monday
WeekdayOf(date) == (calendar.weekday + (date - start_date)) % 7

\* "if current_day.weekday() >= 5"
IsWeekend(date) == WeekdayOf(date) >= 5

\* "settings.trading_start_hour_utc <= scan_hour < settings.trading_end_hour_utc"
WithinTradingHours ==
    /\ settings.trading_start_hour_utc <= scan_hour
    /\ scan_hour < settings.trading_end_hour_utc

\* the settings of a driver run: its length and the trading hours
DriverSetting(months, extra_days, start_hour, end_hour) ==
    Settings(<< "AAA", "BBB" >>, FALSE, 5, 1, 50, months)
        @@ [extra_days |-> extra_days, trading_start_hour_utc |-> start_hour,
            trading_end_hour_utc |-> end_hour]

\* "if current_day.month != current_month or current_day.year != current_year"
NewMonth == MonthOf(current_date) /= current_month

\* the cash and the ledger after the month check of an iteration
CashToday == cash + (IF NewMonth THEN monthly_budget ELSE 0)

LedgerToday == IF NewMonth THEN reset_month(LedgerNow, now_month) ELSE LedgerNow

\* the head of an iteration: day_count, and the budget of a new month
DayPrologue ==
    /\ day_count' = day_count + 1
    /\ current_month' = MonthOf(current_date)
    /\ injected' = injected + (IF NewMonth THEN 1 ELSE 0)

RECURSIVE place_buys(_, _, _, _, _)
\* the buy loop of the continuous driver: a decision that costs more than the
\* cash at the quote is skipped; the limit is passed when it is positive
place_buys(decisions, i, b, quotes, events) ==
    IF i > Len(decisions) THEN [broker |-> b, orders |-> events]
    ELSE LET dec == decisions[i]
             out == order_on(b, quotes, dec.symbol, dec.qty, "buy",
                             IF dec.limit_price > 0 THEN dec.limit_price ELSE NoLimit)
         IN  IF Notional(quotes[dec.symbol], dec.qty) > b.cash
             THEN place_buys(decisions, i + 1, b, quotes, events)
             ELSE place_buys(decisions, i + 1, out, quotes,
                             Append(events, OrderEvent(dec, b, out)))

RECURSIVE record_fills(_, _, _, _)
\* "if res.qty > 0: budget_tracker.record_trade(Trade(...))" after each order
record_fills(l, events, i, now) ==
    IF i > Len(events) THEN l
    ELSE LET res == events[i].result
             trade == Trade(current_date, res.symbol, res.side, res.qty, res.price,
                            Notional(res.price, res.qty), events[i].decision.reason)
         IN  record_fills(IF res.qty > 0 THEN record_trade(l, trade, now) ELSE l,
                          events, i + 1, now)

\* the scan of a trading day on a broker holding cash c, day_count being count:
\* the rating matches, the exits, and on every fifth day the entries
daily_scan(c, count, picks) ==
    LET quotes == QuotesNow
        b == Outcome(c, positions, trade_history, NoResult)
        elo == run_elo_matches(elo_ratings, last_elo_match, picks,
                               [s \in Symbols |-> pnl_score(s, positions, quotes)])
        planned == plan_exits(positions, quotes,
                              Tracking(highest_prices, partial_taken, stop_levels))
        sold == place_orders(planned.decisions, 1, b, quotes, << >>)
        entries == IF sold.broker.cash >= Money(50) /\ count % 5 = 1
                   THEN plan_buys(available_cash_of(sold.broker, c),
                                  sold.broker.positions, quotes, elo.elo_ratings)
                   ELSE << >>
        bought == place_buys(entries, 1, sold.broker, quotes, << >>)
    IN  Done(bought.broker, planned.tracking, elo,
             Lifetimes(Observed(lifetime, positions, quotes, planned.decisions),
                       sold.broker.positions, bought.broker.positions),
             [Cycle("scan", quotes, planned.decisions, entries,
                    sold.orders \o bought.orders, elo, sold.broker.cash,
                    sold.broker.positions) EXCEPT !.pre_cash = c])

\* a scan, the trades it records in the ledger, and the day's snapshot
Scanned(done) ==
    /\ Recorded(done)
    /\ LET l == record_fills(LedgerToday, done.cycle.orders, 1, now_month)
       IN  /\ budget_tracker' = l.tracker
           /\ data_file' = l.file

ContinuousFrame ==
    UNCHANGED << kind, market, historical_cache, hashseed, price_cache, peer_hashseed,
                 peer_price_cache, orders, last, settings, initial_cash, calendar,
                 now_month, gathered, missing_symbols, month_count, month_end,
                 day_cursor, final_value, metrics >>

\* before the loop: "budget_tracker.reset_month(); broker.cash += monthly_budget"
ContinuousBegin ==
    /\ pc = "begin"
    /\ LET l == reset_month(LedgerNow, now_month)
       IN  /\ budget_tracker' = l.tracker
           /\ data_file' = l.file
    /\ cash' = cash + monthly_budget
    /\ injected' = injected + 1
    /\ pc' = "scan"
    /\ UNCHANGED << current_date, positions, trade_history, elo_ratings, last_elo_match,
                    stop_levels, highest_prices, partial_taken, portfolio_history,
                    lifetime, cycle, day_count, current_month >>
    /\ ContinuousFrame

\* an iteration on a weekend: the month check, then "continue"
WeekendDay ==
    /\ pc = "scan" /\ MonthsRemain(current_date)
    /\ IsWeekend(current_date)
    /\ DayPrologue
    /\ cash' = CashToday
    /\ budget_tracker' = LedgerToday.tracker
    /\ data_file' = LedgerToday.file
    /\ current_date' = current_date + 1
    /\ UNCHANGED << pc, positions, trade_history, elo_ratings, last_elo_match,
                    stop_levels, highest_prices, partial_taken, portfolio_history,
                    lifetime, cycle >>
    /\ ContinuousFrame

\* an iteration on a weekday within the trading hours
TradingDay ==
    /\ pc = "scan" /\ MonthsRemain(current_date)
    /\ ~IsWeekend(current_date)
    /\ WithinTradingHours
    /\ DayPrologue
    /\ \E picks \in Picks : Scanned(daily_scan(CashToday, day_count + 1, picks))
    /\ current_date' = current_date + 1
    /\ UNCHANGED pc
    /\ ContinuousFrame

\* an iteration on a weekday outside the trading hours: the snapshot only
ClosedDay ==
    /\ pc = "scan" /\ MonthsRemain(current_date)
    /\ ~IsWeekend(current_date)
    /\ ~WithinTradingHours
    /\ DayPrologue
    /\ cash' = CashToday
    /\ budget_tracker' = LedgerToday.tracker
    /\ data_file' = LedgerToday.file
    /\ portfolio_history' =
          Append(portfolio_history, Snapshot(current_date, CashToday, positions))
    /\ current_date' = current_date + 1
    /\ UNCHANGED << pc, positions, trade_history, elo_ratings, last_elo_match,
                    stop_levels, highest_prices, partial_taken, lifetime, cycle >>
    /\ ContinuousFrame

\* the first day of the runs: any weekday, early or late in a month
Calendars ==
    { [weekday |-> w, month |-> 1, day |-> d] : w \in 0 .. 6, d \in {1, 25} }

\* runs of 0 and 1 months, ending on the month boundary or ExtraDays later, with
\* the scan hour inside and outside the trading hours
DriverSettings ==
    { DriverSetting(m, x, h, 21) : m \in {0, 1}, x \in {0, ExtraDays}, h \in {14, 16} }

InitDrivers ==
    /\ kind = "backtest"
    /\ pc \in {"loop", "begin"}
    /\ current_date = start_date
    /\ cash \in InitialCash
    /\ positions = EmptyMap
    /\ trade_history = << >>
    /\ settings \in DriverSettings
    /\ market = [s \in Symbols |-> DailyBars(s, start_date - HistoryDays, EndOfRun)]
    /\ historical_cache = market
    /\ hashseed = 0
    /\ price_cache = EmptyMap
    /\ peer_hashseed = 0
    /\ peer_price_cache = EmptyMap
    /\ orders = 0
    /\ final_value = 0
    /\ last = NoCall
    /\ elo_ratings = [s \in Symbols |-> elo_initial_rating]
    /\ last_elo_match = 0
    /\ stop_levels = EmptyMap
    /\ highest_prices = EmptyMap
    /\ partial_taken = EmptyMap
    /\ portfolio_history = << >>
    /\ month_count = 0
    /\ month_end = start_date
    /\ day_cursor = start_date
    /\ injected = 0
    /\ initial_cash = cash
    /\ metrics = NoMetrics
    /\ calendar \in Calendars
    /\ day_count = 0
    /\ current_month = calendar.month
    /\ now_month = 1
    /\ data_file = NoFile
    /\ budget_tracker = Tracker_load(data_file, now_month)
    /\ gathered = << >>
    /\ missing_symbols = << >>
    /\ lifetime = EmptyMap
    /\ cycle = NoCycle

NextDrivers ==
    \/ MonthBegin
    \/ DayBegin
    \/ MidMonthExits
    \/ MonthClose
    \/ ContinuousBegin
    \/ WeekendDay
    \/ TradingDay
    \/ ClosedDay
    \/ Report

\* the positions of both drivers
DriverPcs == {"loop", "days", "exits", "begin", "scan", "done"}

\* a step of a driver that has not reported yet: each one changes the position
\* or the clock
DriverStep ==
    /\ pc \in DriverPcs \ {"done"}
    /\ pc' \in DriverPcs
    /\ current_date' \in start_date .. EndOfRun

\* the driver is a sequential program: until it has reported it takes its next
\* step
SpecDrivers ==
    InitDrivers /\ [][NextDrivers]_vars /\ WF_<< pc, current_date >>(DriverStep)

(***************************************************************************)
(* The drivers under faults: an interrupt or a cancellation of the run,    *)
(* and a quote request that raises (the data connection is down and        *)
(* connect() fails) while plan_exits walks the positions.  pc is           *)
(* "interrupted" or "raised" once the exception has left run_backtest.     *)
(***************************************************************************)
\* the record of a fetch_quote call that raised
Raised(symbol) == [op |-> "fetch_quote", symbol |-> symbol, raised |-> TRUE]

\* the positions plan_exits has examined when the quote of the k-th raises
ExaminedBefore(k) == SubSeq(list_positions(positions), 1, k - 1)

\* plan_exits when fetch_quote raises for the k-th listed position: the
\* decisions are lost with the exception, the tracking maps written for the
\* positions before it stay
plan_exits_raising(k) ==
    plan_exits_from(ExaminedBefore(k), 1, positions, QuotesNow,
                    settings.partial_take_profit_frac,
                    Planned(<< >>, Tracking(highest_prices, partial_taken, stop_levels))
                   ).tracking

\* the record of the strategy call the exception ended
RaisedCycle(op, k, elo) ==
    Cycle(op, [s \in { ExaminedBefore(k)[i] : i \in 1 .. (k - 1) } |-> QuotesNow[s]],
          << >>, << >>, << >>, elo, 0, positions)

\* the tracking maps and the records an exit pass leaves when it raises
RaisingExits(op, k) ==
    /\ highest_prices' = plan_exits_raising(k).highest_prices
    /\ partial_taken' = plan_exits_raising(k).partial_taken
    /\ stop_levels' = plan_exits_raising(k).stop_levels
    /\ cycle' = RaisedCycle(op, k, Rated(elo_ratings, last_elo_match, << >>, FALSE))
    /\ last' = Raised(list_positions(positions)[k])

FaultFrame ==
    UNCHANGED << kind, market, historical_cache, hashseed, price_cache, peer_hashseed,
                 peer_price_cache, orders, settings, initial_cash, calendar, now_month,
                 gathered, missing_symbols, final_value, metrics, positions,
                 trade_history, elo_ratings, last_elo_match, portfolio_history,
                 lifetime >>

\* KeyboardInterrupt or asyncio.CancelledError while a driver runs: neither is an
\* Exception, no handler of the drivers or of run_backtest catches it
Interrupt ==
    /\ pc \in DriverPcs \ {"done"}
    /\ pc' = "interrupted"
    /\ UNCHANGED << current_date, cash, highest_prices, partial_taken, stop_levels,
                    cycle, last, month_count, month_end, day_cursor, injected,
                    day_count, current_month, budget_tracker, data_file >>
    /\ FaultFrame

\* the month's cycle raises in plan_exits: "except Exception" of the month loop
\* prints the error, the snapshot is skipped and the day loop starts
MonthBeginRaises ==
    /\ pc = "loop" /\ MonthsRemain(current_date)
    /\ \E k \in DOMAIN list_positions(positions) : RaisingExits("execute", k)
    /\ month_count' = month_count + 1
    /\ month_end' = MonthEnd(current_date)
    /\ cash' = cash + monthly_budget
    /\ injected' = injected + 1
    /\ day_cursor' = current_date + 1
    /\ pc' = "days"
    /\ UNCHANGED << current_date, day_count, current_month, budget_tracker, data_file >>
    /\ FaultFrame

\* plan_exits raises on a mid-month day: the call is outside any try
MidMonthExitsRaise ==
    /\ pc = "exits"
    /\ \E k \in DOMAIN list_positions(positions) : RaisingExits("plan_exits", k)
    /\ pc' = "raised"
    /\ UNCHANGED << current_date, cash, month_count, month_end, day_cursor, injected,
                    day_count, current_month, budget_tracker, data_file >>
    /\ FaultFrame

\* plan_exits raises in the scan of a trading day, after the month check
TradingDayRaises ==
    /\ pc = "scan" /\ MonthsRemain(current_date)
    /\ ~IsWeekend(current_date)
    /\ WithinTradingHours
    /\ DayPrologue
    /\ \E k \in DOMAIN list_positions(positions) : RaisingExits("scan", k)
    /\ cash' = CashToday
    /\ budget_tracker' = LedgerToday.tracker
    /\ data_file' = LedgerToday.file
    /\ pc' = "raised"
    /\ UNCHANGED << current_date, month_count, month_end, day_cursor >>
    /\ FaultFrame

NextFaults ==
    \/ NextDrivers
    \/ Interrupt
    \/ MonthBeginRaises
    \/ MidMonthExitsRaise
    \/ TradingDayRaises

SpecFaults ==
    InitDrivers /\ [][NextFaults]_vars /\ WF_<< pc, current_date >>(DriverStep)

(***************************************************************************)
(* The report on its own: calculate_performance_metrics applied to every   *)
(* small trade history, initial value, final value, budget and number of   *)
(* months.                                                                 *)
(***************************************************************************)
MaxMetricTrades == 3  \* trades of a history handed to the metrics

\* the realised profits and losses of the sells
MetricPnls == {0 - Money(150), 0 - Money(50), 0, Money(50)}

MetricTrades ==
    {BuyTrade(start_date, "AAA", 100, Money(50), Money(50))}
        \cup {SellTrade(start_date, "AAA", 100, Money(50), Money(50), pnl) : pnl \in MetricPnls}

MetricHistories == UNION {[1 .. n -> MetricTrades] : n \in 0 .. MaxMetricTrades}

InitialValues == {0 - Money(200), 0, Money(100)}

FinalValues == {0, Money(150)}

\* the call of run_backtest's last step, with either budget
ComputeMetrics ==
    /\ pc = "metrics"
    /\ \E budget \in {0, monthly_budget} :
          /\ metrics' = calculate_performance_metrics(initial_cash, final_value, trade_history,
                                                      budget, settings.months)
          /\ last' = [NoCall EXCEPT !.op = "calculate_performance_metrics", !.value = budget]
    /\ pc' = "done"
    /\ UNCHANGED << trade_history, market, historical_cache, final_value, settings,
                    initial_cash, budget_tracker, data_file, now_month, gathered,
                    missing_symbols, parked_vars >>

InitMetrics ==
    /\ Parked
    /\ pc = "metrics"
    /\ trade_history \in MetricHistories
    /\ market = EmptyMap
    /\ historical_cache = EmptyMap
    /\ final_value \in FinalValues
    /\ last = NoCall
    /\ settings \in {DriverSetting(months, 0, 14, 21) : months \in {0, 1}}
    /\ initial_cash \in InitialValues
    /\ metrics = NoMetrics
    /\ budget_tracker = NoTracker
    /\ data_file = NoFile
    /\ now_month = 1
    /\ gathered = << >>
    /\ missing_symbols = << >>

NextMetrics == ComputeMetrics

SpecMetrics == InitMetrics /\ [][NextMetrics]_vars

(***************************************************************************)
(* The indicators (calculate_rsi, calculate_sma) in binary floating point. *)
(* A float is a whole number of units of 2^-FractionBits whose significand *)
(* has FloatBits bits: every arithmetic operation of the program is the    *)
(* exact operation followed by a rounding to the nearest float, ties to    *)
(* the even significand, as in IEEE 754 (a Python float has 53 bits).      *)
(***************************************************************************)
FloatBits == 5     \* bits of the significand
FractionBits == 4  \* 1.0 is 2^FractionBits units

FloatOne == 2 ^ FractionBits

\* the float of a whole number
Float(n) == n * FloatOne

RECURSIVE Spacing(_)
\* the distance between the floats around q units
Spacing(q) == IF q < 2 ^ FloatBits THEN 1 ELSE 2 * Spacing(q \div 2)

\* the float nearest to num / den units, ties to the even significand
RoundQ(num, den) ==
    LET step == Spacing(num \div den) * den
        m == num \div step
        twice == 2 * (num - m * step)
        up == twice > step \/ (twice = step /\ m % 2 = 1)
    IN  (IF up THEN m + 1 ELSE m) * (step \div den)

\* a + b, a - b (for a >= b) and a / b on floats
FAdd(a, b) == RoundQ(a + b, 1)

FSub(a, b) == RoundQ(a - b, 1)

FDiv(a, b) == RoundQ(a * FloatOne, b)

RECURSIVE FSum(_, _, _)
\* sum(values): the running total from 0, rounded after each addition
FSum(values, i, total) ==
    IF i > Len(values) THEN total ELSE FSum(values, i + 1, FAdd(total, values[i]))

\* the values of a list
Range(seq) == { seq[i] : i \in DOMAIN seq }

\* calculate_sma; the period of the division is a whole number
calculate_sma(prices, period) ==
    IF Len(prices) < period THEN RoundQ(FSum(prices, 1, 0), Len(prices))
    ELSE RoundQ(FSum(LastN(prices, period), 1, 0), period)

\* calculate_rsi
calculate_rsi(prices, period) ==
    IF Len(prices) < period + 1 THEN Float(50)
    ELSE LET deltas == [i \in 1 .. Len(prices) - 1 |->
                           IF prices[i + 1] >= prices[i]
                           THEN [gain |-> FSub(prices[i + 1], prices[i]), loss |-> 0]
                           ELSE [gain |-> 0, loss |-> FSub(prices[i], prices[i + 1])]]
             last_deltas == LastN(deltas, period)
             gains == [i \in DOMAIN last_deltas |-> last_deltas[i].gain]
             losses == [i \in DOMAIN last_deltas |-> last_deltas[i].loss]
             avg_gain == RoundQ(FSum(gains, 1, 0), period)
             avg_loss == RoundQ(FSum(losses, 1, 0), period)
         IN  IF avg_loss = 0 THEN Float(100)
             ELSE FSub(Float(100), FDiv(Float(100), FAdd(Float(1), FDiv(avg_gain, avg_loss))))

MaxPrices == 3  \* prices handed to an indicator, and the largest period

\* 1.0, 1.375, 1.5 and 2.5
IndicatorPrices == {16, 22, 24, 40}

PriceLists == UNION {[1 .. n -> IndicatorPrices] : n \in 1 .. MaxPrices}

IndicatorCall(op, prices, period, value) ==
    [op |-> op, prices |-> prices, period |-> period, value |-> value]

IndicatorFrame ==
    UNCHANGED << pc, trade_history, market, historical_cache, final_value, settings,
                 initial_cash, metrics, budget_tracker, data_file, now_month, gathered,
                 missing_symbols, parked_vars >>

CalculateSma ==
    /\ pc = "indicators"
    /\ \E prices \in PriceLists, period \in 1 .. MaxPrices :
          last' = IndicatorCall("calculate_sma", prices, period, calculate_sma(prices, period))
    /\ IndicatorFrame

CalculateRsi ==
    /\ pc = "indicators"
    /\ \E prices \in PriceLists, period \in 1 .. MaxPrices :
          last' = IndicatorCall("calculate_rsi", prices, period, calculate_rsi(prices, period))
    /\ IndicatorFrame

InitIndicators ==
    /\ Parked
    /\ pc = "indicators"
    /\ trade_history = << >>
    /\ market = EmptyMap
    /\ historical_cache = EmptyMap
    /\ final_value = 0
    /\ last = NoCall
    /\ settings = DefaultSettings
    /\ initial_cash = 0
    /\ metrics = NoMetrics
    /\ budget_tracker = NoTracker
    /\ data_file = NoFile
    /\ now_month = 1
    /\ gathered = << >>
    /\ missing_symbols = << >>

NextIndicators == CalculateSma \/ CalculateRsi

SpecIndicators == InitIndicators /\ [][NextIndicators]_vars

(***************************************************************************)
(* The bulk preload (preload_all_tickers).  One task per symbol of the     *)
(* universe runs _fetch_bars_for_symbol; the tasks complete in any order   *)
(* and asyncio.gather hands their results over in the order of the         *)
(* universe, an exception raised by a task in the place of its result.     *)
(***************************************************************************)
\* how a task ends: with bars, with an empty answer, in one of the two handlers
\* of _fetch_bars_for_symbol, or with the exception of connect()
TaskOutcomes == {"bars", "no_bars", "qualify_failed", "fetch_failed", "connect_failed"}

\* _fetch_bars_for_symbol(symbol): the tuple it returns or the exception it
\* raises, and the warning it logged
fetch_bars_for_symbol(symbol, outcome) ==
    IF outcome = "connect_failed"
    THEN [raised |-> TRUE, symbol |-> symbol, bars |-> << >>, logged |-> "none"]
    ELSE [raised |-> FALSE, symbol |-> symbol,
          bars |-> IF outcome = "bars" THEN MarketTable[symbol] ELSE << >>,
          logged |-> IF outcome = "bars" THEN "none" ELSE outcome]

\* "results": the results of the completed tasks in the order of the universe
ResultsInOrder(universe, completed) ==
    [i \in 1 .. Len(universe) |->
        completed[CHOOSE k \in 1 .. Len(completed) : completed[k].symbol = universe[i]]]

RECURSIVE preload_from(_, _, _, _)
\* "for item in results": the cache and the missing list after the items from
\* the i-th on
preload_from(results, i, cache, missing) ==
    IF i > Len(results) THEN [historical_cache |-> cache, missing_symbols |-> missing]
    ELSE IF results[i].raised THEN preload_from(results, i + 1, cache, missing)
    ELSE preload_from(results, i + 1, Put(cache, results[i].symbol, results[i].bars),
                      IF results[i].bars = << >> THEN Append(missing, results[i].symbol)
                      ELSE missing)

PreloadFrame ==
    UNCHANGED << trade_history, market, final_value, last, settings, initial_cash,
                 metrics, budget_tracker, data_file, now_month, parked_vars >>

\* one task of the gather completes
TaskCompletes ==
    /\ pc = "preload"
    /\ \E i \in 1 .. Len(settings.universe), outcome \in TaskOutcomes :
          /\ \A k \in 1 .. Len(gathered) : gathered[k].symbol /= settings.universe[i]
          /\ gathered' = Append(gathered, fetch_bars_for_symbol(settings.universe[i], outcome))
    /\ UNCHANGED << pc, historical_cache, missing_symbols >>
    /\ PreloadFrame

\* every task is complete: preload_all_tickers goes through the results
Gathered ==
    /\ pc = "preload"
    /\ Len(gathered) = Len(settings.universe)
    /\ LET done == preload_from(ResultsInOrder(settings.universe, gathered), 1,
                                historical_cache, << >>)
       IN  /\ historical_cache' = done.historical_cache
           /\ missing_symbols' = done.missing_symbols
    /\ pc' = "done"
    /\ UNCHANGED gathered
    /\ PreloadFrame

InitPreload ==
    /\ Parked
    /\ pc = "preload"
    /\ trade_history = << >>
    /\ market = MarketTable
    /\ historical_cache = EmptyMap
    /\ final_value = 0
    /\ last = NoCall
    /\ settings \in {[DefaultSettings EXCEPT !.universe = universe] :
                        universe \in {<< "AAA", "BBB" >>, << "BBB", "AAA" >>}}
    /\ initial_cash = 0
    /\ metrics = NoMetrics
    /\ budget_tracker = NoTracker
    /\ data_file = NoFile
    /\ now_month = 1
    /\ gathered = << >>
    /\ missing_symbols = << >>

NextPreload == TaskCompletes \/ Gathered

SpecPreload == InitPreload /\ [][NextPreload]_vars

(***************************************************************************)
(* The entries on their own: decision cycles on quiet days, from every     *)
(* small combination of cash, ratings and entry settings.                  *)
(***************************************************************************)
\* a run's Settings with some fields set apart from the defaults
EntrySetting(fields) == fields @@ Settings(<< "AAA", "BBB" >>, FALSE, 5, 1, 50, 12)

\* the defaults, each rating mode for one instrument, and a single holding
EntrySettings ==
    { EntrySetting([max_positions |-> max_positions]),
      EntrySetting([elo_winners_only_mode |-> TRUE, elo_winners_count |-> 1]),
      EntrySetting([elo_losers_only_mode |-> TRUE, elo_losers_count |-> 1]),
      EntrySetting([max_positions |-> 1]) }

\* below the threshold of plan_buys, an amount whose shares are not a whole
\* number of quantities, and the initial cash of a run
EntryCash == {Money(40), Money(101) + 50, Money(10000)}

EntryRatings ==
    { [s \in Symbols |-> elo_initial_rating],
      [s \in Symbols |-> IF s = "AAA" THEN elo_initial_rating + elo_k_factor
                         ELSE elo_initial_rating - elo_k_factor],
      [s \in Symbols |-> IF s = "AAA" THEN elo_initial_rating - elo_k_factor
                         ELSE elo_initial_rating + elo_k_factor] }

\* the driver moves the clock to the next day, on which the provider's closes
\* go on as before
QuietDay ==
    /\ pc = "run" /\ current_date < start_date + StrategyDays
    /\ cycle.date = current_date
    /\ current_date' = current_date + 1
    /\ market' = [s \in Symbols |->
                     Append(market[s],
                            Bar(current_date + 1, DailyClose(s, current_date + 1), 1000))]
    /\ historical_cache' = market'
    /\ UNCHANGED << kind, pc, cash, positions, trade_history, hashseed, price_cache,
                    peer_hashseed, peer_price_cache, orders, final_value, last,
                    strategy_vars >>

\* the bars of a provider that has one bar per trading day: none on the last
\* two days of each week, day 0 being a Monday
TradingDayBars(symbol, from, to) ==
    LET OnTradingDay(bar) == bar.date % 7 < 5
    IN  SelectSeq(DailyBars(symbol, from, to), OnTradingDay)

InitEntries ==
    /\ kind = "backtest"
    /\ pc = "run"
    /\ current_date = start_date
    /\ cash \in EntryCash
    /\ positions = EmptyMap
    /\ trade_history = << >>
    /\ market \in { [s \in Symbols |-> DailyBars(s, start_date - HistoryDays, start_date)],
                    [s \in Symbols |->
                        TradingDayBars(s, start_date - HistoryDays, start_date)] }
    /\ historical_cache = market
    /\ hashseed = 0
    /\ price_cache = EmptyMap
    /\ peer_hashseed = 0
    /\ peer_price_cache = EmptyMap
    /\ orders = 0
    /\ final_value = 0
    /\ last = NoCall
    /\ settings \in EntrySettings
    /\ elo_ratings \in EntryRatings
    /\ last_elo_match = 0
    /\ stop_levels = EmptyMap
    /\ highest_prices = EmptyMap
    /\ partial_taken = EmptyMap
    /\ portfolio_history = << >>
    /\ month_count = 0
    /\ month_end = start_date
    /\ day_cursor = start_date
    /\ injected = 0
    /\ initial_cash = cash
    /\ metrics = NoMetrics
    /\ NoLedger
    /\ lifetime = EmptyMap
    /\ cycle = NoCycle

NextEntries ==
    \/ QuietDay
    \/ Execute
    \/ DayExits

SpecEntries == InitEntries /\ [][NextEntries]_vars

(***************************************************************************)
(* The price history on its own: fetch_historical of either broker at      *)
(* every clock value, over every history the provider can hold.            *)
(***************************************************************************)
MaxWindowDays == 2    \* the largest "days" a caller passes

\* the call, the bars it read and the closes it returned
HistoricalCall(symbol, days, bars, prices) ==
    [op |-> "fetch_historical", symbol |-> symbol, days |-> days, bars |-> bars,
     prices |-> prices, pre_date |-> current_date]

\* the bars fetch_historical reads once the symbol is loaded
BarsAfterLoad(symbol, fetched) ==
    IF kind = "backtest" THEN HistoricalAfter(symbol, fetched)[symbol]
    ELSE PriceCacheAfter(symbol)[symbol]

\* broker.fetch_historical(symbol, days)
FetchHistorical ==
    /\ pc = "run"
    /\ \E symbol \in Symbols, days \in 1 .. MaxWindowDays :
          \E fetched \in FetchOutcomes(symbol) :
             /\ historical_cache' = HistoricalAfter(symbol, fetched)
             /\ price_cache' = PriceCacheAfter(symbol)
             /\ last' = HistoricalCall(symbol, days, BarsAfterLoad(symbol, fetched),
                                       fetch_historical(BarsAfterLoad(symbol, fetched),
                                                        current_date, days))
    /\ UNCHANGED << pc, current_date, cash, positions, trade_history, orders,
                    final_value >>
    /\ Untouched

NextHistorical ==
    \/ FetchHistorical
    \/ AdvanceDate

SpecHistorical == InitQuote /\ [][NextHistorical]_vars

(***************************************************************************)
(* The broker's two histories: order calls, clock steps and the driver's   *)
(* record_portfolio_snapshot calls in any order.                           *)
(***************************************************************************)
MaxSnapshots == 1     \* record_portfolio_snapshot calls per run

\* broker.record_portfolio_snapshot()
RecordPortfolioSnapshot ==
    /\ pc = "run" /\ Len(portfolio_history) < MaxSnapshots
    /\ portfolio_history' = Append(portfolio_history, Snapshot(current_date, cash, positions))
    /\ last' = Call("record_portfolio_snapshot", "", "", 0, NoLimit, 0, NoResult, 0)
    /\ UNCHANGED << kind, pc, current_date, cash, positions, trade_history, market,
                    historical_cache, hashseed, price_cache, peer_hashseed,
                    peer_price_cache, orders, final_value, settings, elo_ratings,
                    last_elo_match, stop_levels, highest_prices, partial_taken,
                    month_count, month_end, day_cursor, injected, initial_cash, metrics,
                    lifetime, cycle, ledger_vars >>

NextSnapshots ==
    \/ PlaceOrder
    \/ ClosePosition
    \/ AdvanceDate
    \/ RecordPortfolioSnapshot

SpecSnapshots == Init /\ [][NextSnapshots]_vars

(***************************************************************************)
(* The position table under orders of any quantity: both brokers, with     *)
(* requested quantities that are zero, negative, fractional or beyond the  *)
(* cash and the holding.                                                   *)
(***************************************************************************)
\* the quantities requested, in shares and in hundredths of a share
AnyQtys == {0, 0 - Shares(1), 50, Shares(1), Shares(3), Shares(100)}

AnyOrders == { Order(qty, side, NoLimit) : qty \in AnyQtys, side \in {"buy", "sell"} }

\* broker.place_order(symbol, qty, side) with any quantity
PlaceAnyOrder ==
    /\ pc = "run" /\ orders < MaxOrders
    /\ \E symbol \in Symbols, o \in AnyOrders : \E fetched \in FetchOutcomes(symbol) :
          LET out == place_order(symbol, o.qty, o.side, o.limit_price, fetched)
          IN  /\ cash' = out.cash
              /\ positions' = out.positions
              /\ trade_history' = out.trade_history
              /\ historical_cache' = HistoricalAfter(symbol, fetched)
              /\ price_cache' = PriceCacheAfter(symbol)
              /\ last' = Call("place_order", symbol, o.side, o.qty, o.limit_price,
                              fetch_quote(symbol, fetched).price, out.result, 0)
    /\ orders' = orders + 1
    /\ UNCHANGED << pc, current_date, final_value >>
    /\ Untouched

NextPositions ==
    \/ PlaceAnyOrder
    \/ ClosePosition
    \/ AdvanceDate

SpecPositions == Init /\ [][NextPositions]_vars

(***************************************************************************)
(* place_order coroutines run together (asyncio.gather).  A coroutine runs *)
(* without interruption up to an await that really suspends; the only one  *)
(* in place_order is the bar request of BacktestBroker.fetch_quote for a   *)
(* symbol that is not cached.  The tasks start in list order and resume in *)
(* the order the provider answers.                                         *)
(***************************************************************************)
GatherSize == 2       \* coroutines per gather

\* the calls a batch is made of
GatherCalls ==
    { [symbol |-> "AAA", qty |-> Shares(3), side |-> "buy"],
      [symbol |-> "AAA", qty |-> Shares(100), side |-> "buy"],
      [symbol |-> "AAA", qty |-> Shares(1), side |-> "sell"],
      [symbol |-> "BBB", qty |-> Shares(3), side |-> "buy"] }

\* a coroutine: its call, where it stands, and what it returned
Task(call, at, result) == [call |-> call, at |-> at, result |-> result]

\* the coroutine objects, none of them started
Batches == { [i \in 1 .. GatherSize |-> Task(calls[i], "created", NoResult)] :
                calls \in [1 .. GatherSize -> GatherCalls] }

\* place_order from the point where fetch_quote has the bars to the return
place_order_with(bars, b, call) ==
    LET price == BT_quote(bars, call.symbol, current_date).price
    IN  BT_place_order(b.cash, b.positions, b.trade_history, current_date, price,
                       call.symbol, call.qty, call.side, NoLimit)

GatherFrame ==
    UNCHANGED << kind, current_date, market, hashseed, peer_hashseed, peer_price_cache,
                 orders, final_value, last, settings, elo_ratings, last_elo_match,
                 stop_levels, highest_prices, partial_taken, portfolio_history,
                 month_count, month_end, day_cursor, injected, initial_cash, metrics,
                 calendar, day_count, current_month, budget_tracker, data_file,
                 now_month, missing_symbols, lifetime, cycle >>

\* "await asyncio.gather(broker.place_order(...), ...)": the tasks are scheduled
Gather ==
    /\ pc = "run" /\ gathered = << >>
    /\ gathered' \in Batches
    /\ pc' = "gather"
    /\ UNCHANGED << cash, positions, trade_history, historical_cache, price_cache >>
    /\ GatherFrame

\* the next task in list order starts: it runs to its return when fetch_quote
\* needs no bars, and suspends in the bar request otherwise
TaskStarts ==
    /\ pc = "gather"
    /\ \E i \in 1 .. Len(gathered) :
          /\ gathered[i].at = "created"
          /\ \A k \in 1 .. i - 1 : gathered[k].at /= "created"
          /\ LET call == gathered[i].call
                 out == place_order(call.symbol, call.qty, call.side, NoLimit, TRUE)
             IN  IF NeedsFetch(call.symbol)
                 THEN /\ gathered' = [gathered EXCEPT ![i].at = "fetching"]
                      /\ UNCHANGED << cash, positions, trade_history, price_cache >>
                 ELSE /\ gathered' = [gathered EXCEPT ![i] = Task(call, "done", out.result)]
                      /\ cash' = out.cash
                      /\ positions' = out.positions
                      /\ trade_history' = out.trade_history
                      /\ price_cache' = PriceCacheAfter(call.symbol)
    /\ UNCHANGED << pc, historical_cache >>
    /\ GatherFrame

\* the provider answers a suspended task, with bars or with a failure: the task
\* stores what it got ("self._historical_cache[symbol] = bars"), reads its quote
\* and fills, all without another suspension
FetchReturns ==
    /\ pc = "gather"
    /\ \E i \in 1 .. Len(gathered), fetched \in BOOLEAN :
          /\ gathered[i].at = "fetching"
          /\ LET call == gathered[i].call
                 bars == IF fetched THEN market[call.symbol] ELSE << >>
                 out == place_order_with(bars,
                                         Outcome(cash, positions, trade_history, NoResult),
                                         call)
             IN  /\ historical_cache' = Put(historical_cache, call.symbol, bars)
                 /\ gathered' = [gathered EXCEPT ![i] = Task(call, "done", out.result)]
                 /\ cash' = out.cash
                 /\ positions' = out.positions
                 /\ trade_history' = out.trade_history
    /\ UNCHANGED << pc, price_cache >>
    /\ GatherFrame

InitGather ==
    /\ kind \in Kinds
    /\ pc = "run"
    /\ current_date = start_date
    /\ cash \in InitialCash
    /\ positions = EmptyMap
    /\ trade_history = << >>
    /\ market = MarketTable
    /\ historical_cache = EmptyMap
    /\ hashseed = 0
    /\ price_cache = EmptyMap
    /\ peer_hashseed = 0
    /\ peer_price_cache = EmptyMap
    /\ orders = 0
    /\ final_value = 0
    /\ last = NoCall
    /\ NoStrategy

NextGather ==
    \/ AdvanceDate
    \/ Gather
    \/ TaskStarts
    \/ FetchReturns

SpecGather == InitGather /\ [][NextGather]_vars

(***************************************************************************)
(* Vocabulary of the properties.                                           *)
(***************************************************************************)
\* the last call ran place_order (directly, or through close_position on a holding)
PlacedOrder ==
    \/ last.op = "place_order"
    \/ last.op = "close_position" /\ last.symbol \in DOMAIN last.pre_positions

\* the last call left the broker's cash, positions and trade history as they were
BrokerUnchanged ==
    /\ cash = last.pre_cash
    /\ positions = last.pre_positions
    /\ trade_history = last.pre_trades

\* the last call filled: it appended one trade
Filled == PlacedOrder /\ Len(trade_history) = Len(last.pre_trades) + 1

BuyFilled == Filled /\ last.side = "buy"

SellFilled == Filled /\ last.side = "sell"

LastTrade == trade_history[Len(trade_history)]

\* quantity held of a symbol in a position table (0 when absent)
HeldQty(table, symbol) == IF symbol \in DOMAIN table THEN table[symbol].qty ELSE 0

\* indexes of the cached bars dated on or before a day
BarsUpTo(symbol, date) ==
    { i \in 1 .. Len(CachedBars(symbol)) : CachedBars(symbol)[i].date <= date }

\* the close of the latest bar dated on or before a day, 0 when there is none
LatestClose(symbol, date) ==
    IF BarsUpTo(symbol, date) = {} THEN 0
    ELSE LET newest == CHOOSE i \in BarsUpTo(symbol, date) :
                          \A j \in BarsUpTo(symbol, date) :
                             CachedBars(symbol)[j].date <= CachedBars(symbol)[i].date
         IN  CachedBars(symbol)[newest].close

\* what one symbol adds to the portfolio value at the current clock
Contribution(symbol) ==
    IF symbol \in DOMAIN positions /\ LatestClose(symbol, current_date) > 0
    THEN Notional(LatestClose(symbol, current_date), positions[symbol].qty)
    ELSE 0

Reconciled == cash + SetSum([s \in Symbols |-> Contribution(s)], Symbols)

RECURSIVE SinceFlat(_, _, _, _)
\* over the trades of one symbol, in order: the quantity held, the buy fills since
\* the position was last flat (their count, summed price x qty and summed qty),
\* the sell fills among them, and the average the fills imply when every buy
\* re-averages the carried average with the fill
SinceFlat(trades, i, symbol, acc) ==
    IF i > Len(trades) THEN acc
    ELSE LET t == trades[i]
             flat == [held |-> 0, buys |-> 0, sells |-> 0, cost |-> 0, qty |-> 0, avg |-> 0]
         IN  IF t.symbol /= symbol THEN SinceFlat(trades, i + 1, symbol, acc)
             ELSE IF t.side = "buy"
             THEN SinceFlat(trades, i + 1, symbol,
                    [held |-> acc.held + t.qty, buys |-> acc.buys + 1,
                     sells |-> acc.sells, cost |-> acc.cost + t.price * t.qty,
                     qty |-> acc.qty + t.qty,
                     avg |-> (acc.avg * acc.held + t.price * t.qty) \div (acc.held + t.qty)])
             ELSE IF acc.held - t.qty <= 0 THEN SinceFlat(trades, i + 1, symbol, flat)
             ELSE SinceFlat(trades, i + 1, symbol,
                    [acc EXCEPT !.held = acc.held - t.qty, !.sells = acc.sells + 1])

Fills(symbol) ==
    SinceFlat(trade_history, 1, symbol,
              [held |-> 0, buys |-> 0, sells |-> 0, cost |-> 0, qty |-> 0, avg |-> 0])

\* volume-weighted average price of the buy fills since the position was last flat
VWAP(symbol) == Fills(symbol).cost \div Fills(symbol).qty

\* equal up to the truncation of the fixed-point grid: one cent per recorded fill
Near(a, b) == Abs(a - b) <= Len(trade_history)

\* the decisions of a list that concern one symbol, in order
DecisionsFor(decisions, symbol) ==
    LET Mine(d) == d.symbol = symbol IN SelectSeq(decisions, Mine)

\* the last strategy call ran plan_exits (on its own or inside execute)
PlannedExits == cycle.op \in {"execute", "plan_exits"}

\* the symbols plan_exits examined: held when it ran, with a positive quote
Examined == { s \in DOMAIN cycle.pre_positions : cycle.quotes[s] > 0 }

\* the position, the quote and the peak plan_exits worked with for a symbol
PosSeen(s) == cycle.pre_positions[s]

PriceSeen(s) == cycle.quotes[s]

PeakSeen(s) ==
    IF s \in DOMAIN cycle.pre_tracking.highest_prices
    THEN Max(cycle.pre_tracking.highest_prices[s], PriceSeen(s))
    ELSE Max(PosSeen(s).avg_price, PriceSeen(s))

TakenBefore(s) ==
    s \in DOMAIN cycle.pre_tracking.partial_taken /\ cycle.pre_tracking.partial_taken[s]

\* the conditions of the four exit checks, each on its own
TakeProfitHolds(s) == PnlAtLeast(PriceSeen(s), PosSeen(s).avg_price, take_profit_pct)

PartialHolds(s) ==
    PnlAtLeast(PriceSeen(s), PosSeen(s).avg_price, partial_take_profit_pct) /\ ~TakenBefore(s)

TrailingHolds(s) ==
    /\ PnlAtLeast(PriceSeen(s), PosSeen(s).avg_price, trailing_stop_activation_pct)
    /\ PriceSeen(s) * 10000 <= PeakSeen(s) * (10000 - trailing_stop_distance_pct)

StopLossHolds(s) == PnlAtMost(PriceSeen(s), PosSeen(s).avg_price, 0 - stop_loss_pct)

\* the reason of the highest-priority check that holds, "" when none holds
FirstCheck(s) ==
    IF TakeProfitHolds(s) THEN "take_profit"
    ELSE IF PartialHolds(s) THEN "partial_take_profit"
    ELSE IF TrailingHolds(s) THEN "trailing_stop"
    ELSE IF StopLossHolds(s) THEN "stop_loss"
    ELSE ""

(***************************************************************************)
(* Properties.                                                             *)
(***************************************************************************)
\* C1: in BacktestBroker cash is never negative after any sequence of
\* place_order / close_position calls.
C1_CashNeverNegative == kind = "backtest" => cash >= 0

\* C2: every buy fill of either broker fills at the slipped limit-or-quote price
\* and takes qty x fill_price plus max(0.05% of that notional, the floor) from cash.
C2_BuyCashDelta ==
    BuyFilled =>
        LET fill_price == BuyFillPrice(FillBase(last.limit_price, last.quote))
            cost == Notional(fill_price, LastTrade.qty)
        IN  /\ LastTrade.price = fill_price
            /\ cash = last.pre_cash - (cost + Commission(cost))

\* C3: a place_order call for a positive quantity that changes nothing returns
\* qty 0, and one that fills returns the positive quantity applied to the position.
C3_ZeroQtySignalsNoFill ==
    (PlacedOrder /\ last.qty > 0) =>
        /\ BrokerUnchanged => last.result.qty = 0
        /\ ~BrokerUnchanged =>
              /\ last.result.qty > 0
              /\ last.result.qty =
                    Abs(HeldQty(positions, last.symbol)
                        - HeldQty(last.pre_positions, last.symbol))

\* C4: a sell fill fills min(requested, held), reduces the position by exactly
\* that with avg_price unchanged, removes the entry exactly when nothing
\* remains, and touches no other position.
C4_SellReducesPosition ==
    SellFilled =>
        LET held == last.pre_positions[last.symbol]
            filled == last.result.qty
        IN  /\ filled = Min(last.qty, held.qty)
            /\ LastTrade.qty = filled
            /\ (last.symbol \in DOMAIN positions) <=> (held.qty - filled > 0)
            /\ last.symbol \in DOMAIN positions =>
                  positions[last.symbol] =
                      Position(last.symbol, held.qty - filled, held.avg_price)
            /\ \A s \in Symbols \ {last.symbol} :
                  /\ (s \in DOMAIN positions) <=> (s \in DOMAIN last.pre_positions)
                  /\ s \in DOMAIN positions => positions[s] = last.pre_positions[s]

\* a sell for more than the holding filled and closed the position
C4_Witness ==
    /\ SellFilled
    /\ last.qty > last.pre_positions[last.symbol].qty
    /\ last.symbol \notin DOMAIN positions

\* C5 as claimed: a held position's avg_price is the volume-weighted average of
\* all buy fills since the position was last flat, partial sells in between or not.
C5_AvgIsVWAPSinceFlat ==
    \A s \in DOMAIN positions : Near(positions[s].avg_price, VWAP(s))

\* C5 as amended: every buy sets avg_price to the average of the carried
\* avg_price, weighted by the quantity still held, and the fill price, weighted
\* by the filled quantity; sells leave it unchanged; it is the volume-weighted
\* average of the buy fills since the position was last flat when no sell fill
\* came between them.
C5_AvgCostBasis ==
    \A s \in DOMAIN positions :
        /\ positions[s].qty = Fills(s).held
        /\ positions[s].avg_price = Fills(s).avg
        /\ Fills(s).sells = 0 => Near(positions[s].avg_price, VWAP(s))

\* a position built by two buys with a partial sell between them
C5_Witness ==
    \E s \in DOMAIN positions :
        /\ Fills(s).buys >= 2 /\ Fills(s).sells >= 1
        /\ LastTrade.symbol = s /\ LastTrade.side = "buy"

\* C6: place_order with a quote <= 0 (no bar at or before current_date), or a
\* sell of a symbol that is not held, returns qty 0 and changes nothing.
C6_RejectsLeaveStateUnchanged ==
    (/\ last.op = "place_order"
     /\ \/ last.quote <= 0
        \/ BarsUpTo(last.symbol, last.pre_date) = {}
        \/ last.side = "sell" /\ last.symbol \notin DOMAIN last.pre_positions)
    => (last.result.qty = 0 /\ BrokerUnchanged)

\* a limit buy of a symbol with no bar yet was rejected
C6_Witness ==
    /\ last.op = "place_order" /\ last.side = "buy" /\ last.qty > 0
    /\ last.limit_price /= NoLimit
    /\ BarsUpTo(last.symbol, last.pre_date) = {}
    /\ last.result.qty = 0

\* C7: every sell fill of either broker adds the proceeds minus
\* max(0.05% of proceeds, the floor) to cash and records
\* pnl = (fill_price - avg_price) x qty - commission.
C7_SellCommissionAndPnl ==
    SellFilled =>
        LET fill_price == SellFillPrice(FillBase(last.limit_price, last.quote))
            proceeds == Notional(fill_price, LastTrade.qty)
            commission == Commission(proceeds)
            avg_price == last.pre_positions[last.symbol].avg_price
        IN  /\ LastTrade.price = fill_price
            /\ cash = last.pre_cash + (proceeds - commission)
            /\ LastTrade.pnl = Notional(fill_price - avg_price, LastTrade.qty) - commission

\* the price fetch_quote returned is the close of the latest cached bar dated on
\* or before the clock, 0 when there is none
QuoteIsLatestClose ==
    last.op = "fetch_quote" => last.quote = LatestClose(last.symbol, current_date)

\* a second fetch_quote of the same symbol with the clock unmoved returns the same price
QuoteRepeats ==
    (/\ last.op = "fetch_quote" /\ last'.op = "fetch_quote"
     /\ last'.symbol = last.symbol /\ current_date' = current_date)
    => last'.quote = last.quote

\* C8: fetch_quote never looks ahead: it returns the close of the latest bar dated
\* on or before current_date, 0 when there is none, and the same price when
\* called again for the same symbol before the clock moves.
C8_QuoteNeverLooksAhead == [](QuoteIsLatestClose) /\ [][QuoteRepeats]_vars

\* a quote was served from a history with a gap at the clock, an older bar and a newer one
C8_Witness ==
    /\ last.op = "fetch_quote" /\ last.quote > 0
    /\ \E i \in 1 .. Len(CachedBars(last.symbol)) :
          CachedBars(last.symbol)[i].date = current_date + 1
    /\ \A i \in 1 .. Len(CachedBars(last.symbol)) :
          CachedBars(last.symbol)[i].date /= current_date

\* C9: two independent processes generate the identical synthetic series for the
\* same symbol, start date and end date.
C9_SameSeriesAcrossRuns ==
    \A s \in DOMAIN price_cache \cap DOMAIN peer_price_cache :
        price_cache[s] = peer_price_cache[s]

\* C10: get_portfolio_value is cash plus, over the held positions, qty x current
\* quote (nothing for a quote <= 0), and so is the final_value of a backtest.
C10_PortfolioValueReconciles ==
    /\ last.op = "get_portfolio_value" => last.value = Reconciled
    /\ pc = "done" => final_value = Reconciled

\* a run ended holding two positions
C10_Witness ==
    /\ pc = "done"
    /\ Cardinality(DOMAIN positions) = 2
    /\ final_value > cash

\* C11: in every plan_exits cycle each held position produces at most one exit
\* decision, the one of the first check that holds in the order take-profit,
\* partial take-profit, trailing stop, stop-loss; symbols that are not held or
\* have no quote produce none.
C11_OneExitByPriority ==
    PlannedExits =>
        \A s \in Symbols :
            LET mine == DecisionsFor(cycle.exits, s)
            IN  /\ Len(mine) <= 1
                /\ s \notin Examined => mine = << >>
                /\ s \in Examined =>
                      /\ (mine = << >>) <=> (FirstCheck(s) = "")
                      /\ mine /= << >> => mine[1].reason = FirstCheck(s)

\* the take-profit and the untaken partial take-profit conditions both held and
\* a single take_profit sell was emitted
C11_Witness ==
    /\ PlannedExits
    /\ \E s \in Examined :
          /\ TakeProfitHolds(s) /\ PartialHolds(s)
          /\ Len(DecisionsFor(cycle.exits, s)) = 1
          /\ DecisionsFor(cycle.exits, s)[1].reason = "take_profit"


\* the symbols whose P&L had reached take_profit_pct when plan_exits examined them
AtTakeProfit == { s \in Examined : TakeProfitHolds(s) }

\* plan_exits decided exactly one sell for the symbol: the whole held quantity,
\* with reason take_profit
OneFullTakeProfit(s) ==
    DecisionsFor(cycle.exits, s) = << Sell(s, PosSeen(s).qty, "take_profit") >>

\* the cycle planned an entry into the symbol
EntryPlanned(s) == DecisionsFor(cycle.entries, s) /= << >>

\* C12 as stated: a position at or above take_profit_pct gets exactly one
\* decision, a take_profit sell of the whole quantity, and once the cycle's
\* orders are executed the symbol is absent from the position table.
C12_TakeProfitLeavesNothing ==
    PlannedExits =>
        \A s \in AtTakeProfit : OneFullTakeProfit(s) /\ s \notin DOMAIN positions

\* C12: a position at or above take_profit_pct gets exactly one decision, a
\* take_profit sell of the whole quantity, and once the cycle's exit orders are
\* executed the symbol is absent from the position table; it is held at the end
\* of the cycle only if the same cycle's entries bought it again.
C12_TakeProfitClosesPosition ==
    PlannedExits =>
        \A s \in AtTakeProfit :
            /\ OneFullTakeProfit(s)
            /\ s \notin DOMAIN cycle.exit_positions
            /\ s \in DOMAIN positions => cycle.op = "execute" /\ EntryPlanned(s)

\* a take-profit closed a position and the entries of the same cycle reopened it
C12_Witness ==
    /\ cycle.op = "execute"
    /\ \E s \in AtTakeProfit :
          /\ OneFullTakeProfit(s)
          /\ s \notin DOMAIN cycle.exit_positions
          /\ s \in DOMAIN positions

\* the symbols plan_exits examined whose P&L had reached the trailing activation
\* threshold at an earlier cycle of the same position
ActivatedEarlier ==
    { s \in Examined : s \in DOMAIN cycle.pre_lifetime /\ cycle.pre_lifetime[s].activated }

\* the quote is at or below (1 - trailing distance) x the highest quote seen
\* since the position was entered
BelowTrail(s) ==
    PriceSeen(s) * 10000
        <= Max(cycle.pre_lifetime[s].peak, PriceSeen(s)) * (10000 - trailing_stop_distance_pct)

\* C13: a position whose P&L reached the activation threshold at an earlier cycle
\* and whose quote is now at or below peak x (1 - trailing distance) gets a
\* trailing_stop sell of the whole quantity (unless a take-profit check, which
\* comes first, holds): a peak of 112 followed by 106.4 exits.
C13_TrailingStopFromPeak ==
    PlannedExits =>
        \A s \in ActivatedEarlier :
            BelowTrail(s) /\ ~TakeProfitHolds(s) /\ ~PartialHolds(s) =>
                DecisionsFor(cycle.exits, s) = << Sell(s, PosSeen(s).qty, "trailing_stop") >>

\* the partial take-profit decisions a position had got before this cycle
PartialsBefore(s) ==
    IF s \in DOMAIN cycle.pre_lifetime THEN cycle.pre_lifetime[s].partials ELSE 0

\* C14: between the entry of a position and its full close at most one
\* partial_take_profit decision is emitted for the symbol, over any sequence of
\* cycles and any price path, and its qty is the held qty times the configured
\* fraction.
C14_PartialOncePerLifetime ==
    PlannedExits =>
        \A s \in Examined :
            /\ PartialsBefore(s) + Partials(cycle.exits, s) <= 1
            /\ \A i \in 1 .. Len(cycle.exits) :
                  cycle.exits[i].symbol = s /\ cycle.exits[i].reason = "partial_take_profit" =>
                      cycle.exits[i].qty
                          = (PosSeen(s).qty * settings.partial_take_profit_frac) \div 100

\* a position that had its partial take-profit at an earlier cycle is again at or
\* above the partial threshold, below the full one, and gets no second partial
C14_Witness ==
    /\ PlannedExits
    /\ \E s \in Examined :
          /\ PartialsBefore(s) = 1
          /\ PnlAtLeast(PriceSeen(s), PosSeen(s).avg_price, partial_take_profit_pct)
          /\ ~TakeProfitHolds(s)
          /\ Partials(cycle.exits, s) = 0
          /\ PosSeen(s).qty > 0

\* the symbols whose position the cycle's exit orders closed
ClosedByExits == DOMAIN cycle.pre_positions \ DOMAIN cycle.exit_positions

\* the symbols plan_exits examined for the first time since their position was
\* entered
FirstObserved ==
    { s \in Examined : s \in DOMAIN cycle.pre_lifetime => cycle.pre_lifetime[s].peak = 0 }

\* C15: whenever a position becomes fully closed, by whichever exit and for any
\* partial fraction, its entries in highest_prices, partial_taken and stop_levels
\* are cleared, so the first plan_exits observation of a re-entered position finds
\* partial_taken unset and starts the peak at max(avg_price, price).
C15_ClosedPositionsUntracked ==
    PlannedExits =>
        /\ \A s \in ClosedByExits :
              /\ s \notin DOMAIN highest_prices
              /\ s \notin DOMAIN partial_taken
              /\ s \notin DOMAIN positions => s \notin DOMAIN stop_levels
        /\ \A s \in FirstObserved :
              /\ ~TakenBefore(s)
              /\ PeakSeen(s) = Max(PosSeen(s).avg_price, PriceSeen(s))

\* the cash the broker holds once the cycle's exit orders are done
CashAfterExits ==
    IF cycle.exits = << >> THEN cycle.pre_cash ELSE cycle.orders[Len(cycle.exits)].cash

\* C16: in Strategy.execute the orders are the exits, in decision order, followed
\* by the entries, in decision order, each placed on the broker the previous one
\* left; the entries are planned once the last exit is done, from the cash and
\* the positions the exits left, so cash freed by an exit is available to them
\* (stated of the cycle that has just run, before the clock moves on).
C16_ExitsBeforeEntries ==
    cycle.op = "execute" /\ cycle.date = current_date =>
        /\ Len(cycle.orders) = Len(cycle.exits) + Len(cycle.entries)
        /\ \A i \in 1 .. Len(cycle.orders) :
              /\ cycle.orders[i].decision
                    = (cycle.exits \o cycle.entries)[i]
              /\ cycle.orders[i].decision.action
                    = (IF i <= Len(cycle.exits) THEN "sell" ELSE "buy")
              /\ cycle.orders[i].pre_cash
                    = (IF i = 1 THEN cycle.pre_cash ELSE cycle.orders[i - 1].cash)
        /\ cash = (IF cycle.orders = << >> THEN cycle.pre_cash
                   ELSE cycle.orders[Len(cycle.orders)].cash)
        /\ cycle.available_cash = CashAfterExits
        /\ cycle.entries = plan_buys(CashAfterExits, cycle.exit_positions, cycle.quotes,
                                     elo_ratings)

\* an exit was filled and an entry of the same cycle cost more than the cash the
\* cycle started with
C16_Witness ==
    /\ cycle.op = "execute"
    /\ cycle.exits /= << >>
    /\ CashAfterExits > cycle.pre_cash
    /\ \E i \in 1 .. Len(cycle.orders) :
          /\ i > Len(cycle.exits)
          /\ cycle.orders[i].result.qty > 0
          /\ Notional(cycle.orders[i].result.price, cycle.orders[i].result.qty) > cycle.pre_cash

\* the number of this call of run_elo_matches is a multiple of elo_match_frequency
AtCadence(call) == call.invocation % settings.elo_match_frequency = 0

\* what the last strategy call did to the ratings: a full cycle with the rating
\* system on plays a round exactly when its invocation is at the cadence, and the
\* round changes ratings; every other call leaves them as they were
RatingsFollowCadence ==
    /\ cycle.op = "execute" /\ settings.elo_enabled /\ Len(settings.universe) >= 2 =>
          /\ cycle.round <=> AtCadence(cycle)
          /\ cycle.round => cycle.matches /= << >> /\ elo_ratings /= cycle.pre_ratings
          /\ ~cycle.round => cycle.matches = << >> /\ elo_ratings = cycle.pre_ratings
    /\ cycle.op = "execute" /\ ~settings.elo_enabled =>
          ~cycle.round /\ cycle.matches = << >> /\ elo_ratings = cycle.pre_ratings
    /\ cycle.op = "plan_exits" => elo_ratings = cycle.pre_ratings

\* a step that changes a rating is a full cycle, with the rating system on, whose
\* run_elo_matches invocation is at the cadence
RatingsChangeInRound ==
    elo_ratings' /= elo_ratings =>
        /\ settings.elo_enabled
        /\ cycle'.op = "execute" /\ cycle'.round /\ AtCadence(cycle')

\* C19: with the rating system enabled and at least two instruments a match round
\* runs on exactly every N-th invocation of run_elo_matches (N =
\* elo_match_frequency); plan_exits, plan_buys, order fills and run_elo_matches
\* with the rating system disabled leave every rating unchanged.
C19_RatingsChangeOnlyAtCadence ==
    /\ []RatingsFollowCadence
    /\ [][RatingsChangeInRound]_vars

\* a full cycle whose run_elo_matches call was the second (N = 2): the round
\* changed ratings, and the cycle also placed orders
C19_Witness ==
    /\ cycle.op = "execute"
    /\ settings.elo_enabled
    /\ cycle.invocation = settings.elo_match_frequency
    /\ cycle.invocation > 1
    /\ cycle.round
    /\ elo_ratings /= cycle.pre_ratings
    /\ cycle.orders /= << >>

\* the instruments whose rating a match changed
Moved(m) == { t \in DOMAIN m.before : m.after[t] /= m.before[t] }

\* the matches of the last round are played one after the other on the ratings
\* the call found, and leave the ratings the strategy now holds
MatchesChained ==
    cycle.matches /= << >> =>
        /\ cycle.matches[1].before = cycle.pre_ratings
        /\ \A i \in 2 .. Len(cycle.matches) :
              cycle.matches[i].before = cycle.matches[i - 1].after
        /\ cycle.matches[Len(cycle.matches)].after = elo_ratings

\* C17: every simple-ELO match changes the ratings of exactly two distinct
\* instruments, the winner by +K and the loser by -K (K = elo_k_factor), and
\* leaves every other rating unchanged; the sum of all ratings stays what it was
\* initially over any sequence of matches.
C17_EloZeroSum ==
    /\ MatchesChained
    /\ \A i \in 1 .. Len(cycle.matches) :
          LET m == cycle.matches[i]
          IN  /\ m.winner /= m.loser
              /\ DOMAIN m.after = DOMAIN m.before
              /\ Moved(m) = {m.winner, m.loser}
              /\ m.after[m.winner] - m.before[m.winner] = elo_k_factor
              /\ m.after[m.loser] - m.before[m.loser] = 0 - elo_k_factor
    /\ DOMAIN elo_ratings = Instruments
    /\ SetSum(elo_ratings, Instruments) = Cardinality(Instruments) * elo_initial_rating

\* a round of two matches in a universe of more than two tickers, after which the
\* ratings differ from the initial ones
C17_Witness ==
    /\ cycle.op = "run_elo_matches"
    /\ Len(cycle.matches) = 2
    /\ Cardinality(Instruments) > 2
    /\ \E t \in Instruments : elo_ratings[t] = elo_initial_rating + 2 * elo_k_factor
    /\ \E t \in Instruments : elo_ratings[t] = elo_initial_rating

\* C18: in a rating match the instrument with the higher composite score wins,
\* and when the two scores are exactly equal the first participant of the pair
\* (ticker1, the higher-ranked of the two) is the winner.
C18_FirstParticipantWinsTies ==
    \A i \in 1 .. Len(cycle.matches) :
        LET m == cycle.matches[i]
        IN  /\ m.score1 > m.score2 => m.winner = m.ticker1 /\ m.loser = m.ticker2
            /\ m.score2 > m.score1 => m.winner = m.ticker2 /\ m.loser = m.ticker1
            /\ m.score1 = m.score2 => m.winner = m.ticker1 /\ m.loser = m.ticker2

\* C20: in the monthly cadence a backtest of `months` months (end date = start +
\* 30 x months days) adds monthly_budget to cash exactly `months` times, once at
\* the start of each month, so initial cash plus all injected budget equals the
\* total_contributed = initial + monthly_budget x months of the metrics.
C20_BudgetInjectedOncePerMonth ==
    /\ injected = month_count
    /\ month_count <= settings.months
    /\ pc = "loop" => current_date = start_date + month_count * DaysPerMonth
    /\ pc = "done" =>
          /\ injected = settings.months
          /\ metrics.initial_value = initial_cash
          /\ metrics.total_contributed = initial_cash + injected * monthly_budget

\* a 12-month run has ended: 12 injections and 12400.00 contributed
C20_Witness ==
    /\ pc = "done"
    /\ injected = 12
    /\ initial_cash = Money(10000)
    /\ metrics.total_contributed = Money(12400)

\* the dates on which the broker recorded a portfolio snapshot
SnapshotDays == { portfolio_history[i].date : i \in DOMAIN portfolio_history }

\* the first day of the month the monthly driver is in
MonthStart == start_date + (month_count - 1) * DaysPerMonth

\* the days the monthly driver has finished simulating
DaysSimulated ==
    IF month_count = 0 THEN {}
    ELSE IF pc = "days" THEN start_date .. (day_cursor - 1)
    ELSE IF pc = "exits" THEN start_date .. (current_date - 1)
    ELSE start_date .. current_date

Spent(trade) == IF Lower(trade.side) = "buy" THEN trade.amount ELSE 0

\* C28: when the stored current_month differs from the wall-clock month, at load
\* or in get_available_budget, monthly_spent is reset to 0 and current_month is
\* set to the wall-clock month while every recorded trade is kept; between
\* rollovers record_trade appends the trade, adds its amount to monthly_spent
\* only for a buy, and rewrites the ledger file.
C28_LedgerMonthRollover ==
    /\ (/\ last.op = "load"
        /\ last.pre_file.exists
        /\ last.pre_file.current_month /= last.now) =>
          /\ budget_tracker.monthly_spent = 0
          /\ budget_tracker.current_month = last.now
          /\ budget_tracker.trades = last.pre_file.trades
    /\ (last.op = "get_available_budget"
        /\ last.pre_tracker.current_month /= last.now) =>
          /\ budget_tracker.monthly_spent = 0
          /\ budget_tracker.current_month = last.now
          /\ budget_tracker.trades = last.pre_tracker.trades
          /\ data_file = Tracker_save(budget_tracker)
    /\ (last.op = "record_trade" /\ last.pre_tracker.current_month = last.now) =>
          /\ budget_tracker.trades = Append(last.pre_tracker.trades, last.trade)
          /\ budget_tracker.monthly_spent =
                last.pre_tracker.monthly_spent + Spent(last.trade)
          /\ budget_tracker.current_month = last.pre_tracker.current_month
          /\ data_file = Tracker_save(budget_tracker)

\* a tracker that had spent on a buy in an earlier month is asked for the budget
\* in a later month: the rollover happens with trades on record
C28_Witness ==
    /\ last.op = "get_available_budget"
    /\ last.pre_tracker.current_month /= last.now
    /\ last.pre_tracker.monthly_spent > 0
    /\ Len(budget_tracker.trades) = MaxLedgerTrades
    /\ \E i \in DOMAIN budget_tracker.trades : budget_tracker.trades[i].side = "sell"

\* how many snapshots the broker recorded for a day
SnapshotsOn(date) ==
    Cardinality({ i \in DOMAIN portfolio_history : portfolio_history[i].date = date })

\* C22: in the continuous cadence exactly one portfolio snapshot is recorded for
\* every simulated day between the start and the end date, weekends and days
\* outside the trading hours included.
C22_OneSnapshotPerDay ==
    day_count > 0 =>
       \A date \in start_date .. (current_date - 1) : SnapshotsOn(date) = 1

\* a step of a driver never moves the clock back, and every loop iteration moves
\* it forward: a day of the continuous loop (day_count changes), a day of the
\* monthly day loop (pc "days" to "exits"), a month (pc "days" to "loop")
ClockAdvances ==
    /\ current_date' >= current_date
    /\ day_count' /= day_count => current_date' > current_date
    /\ (pc = "days" /\ pc' = "exits") => current_date' > current_date
    /\ (pc = "days" /\ pc' = "loop") => current_date' > MonthStart

\* the monthly driver keeps the clock within the run
WithinRun == day_count = 0 => current_date <= EndOfRun

\* C23: both drivers terminate: for any start and end date every loop iteration
\* strictly advances the simulated clock (weekend iterations and months cut
\* short by the end date included), the loop stops once current_date reaches
\* end_date, and the monthly driver never steps the clock past end_date.
C23_DriversTerminate ==
    /\ <>(pc = "done")
    /\ [][ClockAdvances]_vars
    /\ []WithinRun

\* a monthly run whose second month was cut short by the end date has ended with
\* the clock on the end date
C23_Witness ==
    /\ pc = "done"
    /\ day_count = 0
    /\ month_count = 2
    /\ settings.extra_days = ExtraDays
    /\ current_date = EndOfRun
    /\ current_date < start_date + month_count * DaysPerMonth

\* the last call of the run was a quote request that raised
QuoteRaised == last.op = "fetch_quote" /\ "raised" \in DOMAIN last

\* C24: a run stopped by an interrupt or a cancellation, in any month or day of
\* either cadence, still eventually computes and reports the metrics of the
\* history recorded so far.
C24_InterruptedRunReports == (pc = "interrupted") ~> (metrics /= NoMetrics)

\* C29: an exception raised while one symbol is processed never aborts the
\* cycle: it is caught and skipped, the other symbols of the cycle are still
\* processed, and the simulation goes on with the next cycle.
C29_SymbolErrorsNeverAbort ==
    QuoteRaised =>
       /\ pc /= "raised"
       /\ (DOMAIN cycle.pre_positions \ {last.symbol}) \subseteq DOMAIN cycle.quotes

\* the metrics have been computed from the history of the state
MetricsComputed == pc = "done" /\ last.op = "calculate_performance_metrics"

\* C25: for every trade history and every initial value, zero and values that
\* realised losses drive below zero included, the max drawdown of the report is
\* within [0, 100] percent.
C25_DrawdownWithinBounds ==
    MetricsComputed => metrics.max_drawdown_pct \in 0 .. 1000

\* a positive initial value driven below zero by the losses: the drawdown
\* computed from the peak exceeds 100 percent and is reported as 100
C25_Witness ==
    /\ MetricsComputed
    /\ initial_cash > 0
    /\ \E i \in 1 .. metrics.equity_points :
          portfolio_values_of(initial_cash, trade_history)[i] < 0
    /\ metrics.max_drawdown_pct = 1000

\* C26: calculate_performance_metrics never divides by zero; total_contributed
\* is initial + monthly_budget x months and net_profit is final -
\* total_contributed; the return is 0 when nothing was contributed; the profit
\* factor is total_wins / total_losses, infinite when there are wins and no
\* loss, else 0; volatility and Sharpe are 0 when the curve has fewer than 2
\* points or the starting equity is 0.
C26_NeverDividesByZero ==
    MetricsComputed =>
        LET wins == PnlTotal(trade_history, 1)
            losses == Abs(PnlTotal(trade_history, -1))
        IN  /\ ~metrics.zero_division
            /\ metrics.total_contributed = initial_cash + last.value * settings.months
            /\ metrics.net_profit = final_value - metrics.total_contributed
            /\ metrics.total_contributed = 0 => metrics.total_return_pct = 0
            /\ metrics.total_contributed > 0 =>
                  metrics.total_return_pct
                      = (metrics.net_profit * 1000) \div metrics.total_contributed
            /\ losses > 0 =>
                  metrics.profit_factor = [inf |-> FALSE, value |-> (wins * 100) \div losses]
            /\ losses = 0 => metrics.profit_factor = [inf |-> wins > 0, value |-> 0]
            /\ metrics.equity_points < 2 \/ initial_cash = 0 =>
                  metrics.volatility_annual = 0 /\ metrics.sharpe_ratio = 0

\* nothing contributed, wins without a loss and a starting equity of 0: every
\* guarded division of the report is skipped at once
C26_Witness ==
    /\ MetricsComputed
    /\ metrics.total_contributed = 0
    /\ initial_cash = 0
    /\ metrics.equity_points >= 2
    /\ metrics.profit_factor.inf
    /\ metrics.net_profit /= 0

\* the averaged window of a calculate_sma call
SmaWindow == LastN(last.prices, last.period)

\* calculate_rsi returns a value in [0, 100]: 50 with fewer than period + 1
\* samples, 100 when no price of the last period deltas fell
RsiWithinBounds ==
    last.op = "calculate_rsi" =>
        /\ last.value \in 0 .. Float(100)
        /\ Len(last.prices) < last.period + 1 => last.value = Float(50)
        /\ (/\ Len(last.prices) >= last.period + 1
            /\ \A i \in 1 .. last.period :
                  last.prices[Len(last.prices) - i + 1] >= last.prices[Len(last.prices) - i])
              => last.value = Float(100)

\* calculate_sma returns a value between the minimum and the maximum of the
\* averaged window
SmaWithinWindow ==
    last.op = "calculate_sma" =>
        /\ \E v \in Range(SmaWindow) : v <= last.value
        /\ \E v \in Range(SmaWindow) : v >= last.value

\* C27: for every positive price sequence and every period >= 1, calculate_rsi
\* returns a value in [0, 100] (50 with fewer than period + 1 samples, 100 when
\* the average loss is 0) and calculate_sma returns a value between the minimum
\* and the maximum of the averaged window, which is every sample when fewer than
\* period exist.
C27_IndicatorsWithinBounds == RsiWithinBounds /\ SmaWithinWindow

\* the symbols of the universe whose task brought usable bars
Loaded == { gathered[k].symbol : k \in { j \in 1 .. Len(gathered) : gathered[j].bars /= << >> } }

\* C30: whatever the order in which the fetch tasks complete and whichever of
\* them fail, a failure to connect included, preload_all_tickers returns, every
\* symbol that loaded has its bars in the cache and every requested symbol
\* without usable bars is in missing_symbols.
C30_PreloadFailureTolerant ==
    pc = "done" /\ Len(gathered) = Len(settings.universe) =>
        \A symbol \in Range(settings.universe) :
            IF symbol \in Loaded
            THEN /\ symbol \in DOMAIN historical_cache
                 /\ historical_cache[symbol] = MarketTable[symbol]
            ELSE symbol \in Range(missing_symbols)

\* the buy decisions of the last decision cycle
Entries == IF cycle.op = "execute" THEN cycle.entries ELSE << >>

\* how many instruments of the universe are rated above, or below, a symbol when
\* the cycle began
RatedAbove(symbol) ==
    Cardinality({ s \in Range(settings.universe) :
                    cycle.pre_ratings[s] > cycle.pre_ratings[symbol] })

RatedBelow(symbol) ==
    Cardinality({ s \in Range(settings.universe) :
                    cycle.pre_ratings[s] < cycle.pre_ratings[symbol] })

\* C31: in winners-only mode every buy decision of plan_buys targets one of the
\* elo_winners_count highest-rated instruments, and in losers-only mode one of
\* the elo_losers_count lowest-rated instruments.
C31_EntriesFollowRatingMode ==
    \A i \in 1 .. Len(Entries) :
        /\ Setting("elo_winners_only_mode", FALSE)
              => RatedAbove(Entries[i].symbol) < Setting("elo_winners_count", 3)
        /\ Setting("elo_losers_only_mode", FALSE)
              => RatedBelow(Entries[i].symbol) < Setting("elo_losers_count", 3)

\* the indexes of the bars a fetch_historical call read that are dated within
\* [current_date - days, current_date]
InWindow ==
    { i \in 1 .. Len(last.bars) :
        /\ last.bars[i].date >= current_date - last.days
        /\ last.bars[i].date <= current_date }

\* the index of the bar behind the k-th returned close: the returned closes are
\* the last ones of the window, in the order of the bars
BarBehind(k) ==
    CHOOSE i \in InWindow :
        Cardinality({ j \in InWindow : j < i })
            = Cardinality(InWindow) - Len(last.prices) + k - 1

\* C32: fetch_historical returns, oldest to newest, only closes of bars dated
\* within [current_date - days, current_date], never one of a bar dated after
\* current_date, at most `days` of them, and the empty list when no bar falls
\* in the window.
C32_HistoryNeverLooksAhead ==
    last.op = "fetch_historical" =>
        /\ Len(last.prices) = Min(Cardinality(InWindow), last.days)
        /\ \A k \in 1 .. Len(last.prices) : last.prices[k] = last.bars[BarBehind(k)].close
        /\ \A k \in 2 .. Len(last.prices) :
              last.bars[BarBehind(k - 1)].date < last.bars[BarBehind(k)].date
        /\ InWindow = {} => last.prices = << >>

\* a call that leaves out a bar of the future and the oldest bar of the window
C32_Witness ==
    /\ last.op = "fetch_historical"
    /\ \E i \in 1 .. Len(last.bars) : last.bars[i].date > current_date
    /\ Cardinality(InWindow) > last.days
    /\ last.prices /= << >>

\* the last step was an order call
OrderCalled == orders' = orders + 1

\* C33: the trade history is append-only: an order call that fills a positive
\* quantity appends exactly one record dated with the clock, a call that fills
\* nothing and every other operation append none, recorded trades are never
\* modified, removed or reordered, and only record_portfolio_snapshot appends to
\* portfolio_history.
C33_HistoriesAppendOnly ==
    [][/\ Len(trade_history') >= Len(trade_history)
       /\ SubSeq(trade_history', 1, Len(trade_history)) = trade_history
       /\ IF OrderCalled /\ last'.result.qty > 0
          THEN /\ Len(trade_history') = Len(trade_history) + 1
               /\ trade_history'[Len(trade_history')].date = current_date
               /\ trade_history'[Len(trade_history')].symbol = last'.symbol
               /\ trade_history'[Len(trade_history')].qty = last'.result.qty
          ELSE trade_history' = trade_history
       /\ IF last'.op = "record_portfolio_snapshot"
          THEN portfolio_history'
                   = Append(portfolio_history, Snapshot(current_date, cash, positions))
          ELSE portfolio_history' = portfolio_history]_vars

\* three fills on two days with a snapshot in between: every record is in place
C33_Witness ==
    /\ Len(trade_history) = 3
    /\ trade_history[1].date < trade_history[3].date
    /\ Len(portfolio_history) = 1
    /\ portfolio_history[1].date = trade_history[1].date
    /\ last.op = "close_position"

RECURSIVE TotalNotional(_, _)
\* the sum of qty x price over the decisions from the i-th on
TotalNotional(decisions, i) ==
    IF i > Len(decisions) THEN 0
    ELSE Notional(decisions[i].limit_price, decisions[i].qty)
             + TotalNotional(decisions, i + 1)

\* C34: plan_buys emits no buy decision when the available cash is below 50, the
\* total notional of the buy decisions of one call never exceeds the available
\* cash read at the start of the call, and no decision is below the minimum
\* ticket size.
C34_EntriesWithinAvailableCash ==
    cycle.op = "execute" =>
        /\ cycle.available_cash < Money(50) => Entries = << >>
        /\ Entries /= << >> => TotalNotional(Entries, 1) <= cycle.available_cash
        /\ \A i \in 1 .. Len(Entries) :
              Notional(Entries[i].limit_price, Entries[i].qty) >= Money(15)

\* C35: after any sequence of decision cycles the number of symbols in the
\* broker's position table never exceeds settings.max_positions.
C35_HoldingsWithinMaxPositions ==
    Cardinality(DOMAIN positions) <= Setting("max_positions", max_positions)

\* the closes plan_buys reads for the stop of an entry: fetch_historical(symbol, days=20)
StopHistory(symbol) == fetch_historical(CachedBars(symbol), current_date, 20)

\* every close of the history differs from the one before it
AlwaysMoving(history) == \A i \in 2 .. Len(history) : history[i] /= history[i - 1]

\* ATR14 of a history of at least 15 closes: the mean of the last 14 absolute
\* close-to-close changes
Atr14(history) ==
    SeqSum([i \in 1 .. 14 |-> Abs(Changes(history, 14)[i])], 1, 14) \div 14

\* the stop the entry decision of a symbol must carry
AtrStop(symbol) ==
    cycle.quotes[symbol] - (15 * Atr14(StopHistory(symbol))) \div 10

\* C36: every entry decision of plan_buys made from at least 14 samples of price
\* history with non-zero close-to-close movement carries the stop
\* entry_price - atr_stop_multiplier x ATR14, and after a filled entry that stop
\* is stored in stop_levels for the symbol.
C36_EntriesCarryAtrStop ==
    cycle.op = "execute" /\ cycle.date = current_date =>
        \A i \in 1 .. Len(cycle.orders) :
            LET event == cycle.orders[i]
                symbol == event.decision.symbol
            IN  /\ event.decision.action = "buy"
                /\ Len(StopHistory(symbol)) >= 15
                /\ AlwaysMoving(StopHistory(symbol))
                => /\ event.decision.stop_loss = AtrStop(symbol)
                   /\ event.result.qty > 0 =>
                         /\ symbol \in DOMAIN stop_levels
                         /\ stop_levels[symbol] = AtrStop(symbol)

\* the run was made by the continuous driver, which went through at least one
\* iteration, and has reported
ContinuousRunReported == pc = "done" /\ day_count > 0

\* C37: in the continuous cadence the budget injections of a run (one at the
\* start and one per month change of the simulated clock, weekends included)
\* total exactly monthly_budget x months, the amount
\* calculate_performance_metrics adds to the initial value as total_contributed.
C37_InjectionsMatchContributed ==
    ContinuousRunReported =>
        metrics.initial_value + injected * monthly_budget = metrics.total_contributed

\* C40: in every state of the budget ledger driven by the continuous driver,
\* get_available_budget is not negative and the monthly_spent accumulated from
\* the buy trades recorded within one ledger month never exceeds monthly_budget.
C40_LedgerWithinMonthlyBudget ==
    /\ get_available_budget(LedgerNow, now_month).value >= 0
    /\ budget_tracker.monthly_spent <= monthly_budget

\* C38: in every reachable state of either broker, after any sequence of orders
\* with zero, negative or oversized requested quantities, every entry of the
\* position table has qty > 0 and avg_price > 0 and is stored under its own
\* symbol; no entry with qty = 0 is left in the table.
C38_PositionTableWellFormed ==
    \A s \in DOMAIN positions :
        /\ positions[s].qty > 0
        /\ positions[s].avg_price > 0
        /\ positions[s].symbol = s

\* an order for a quantity of zero is made on a table that, after an oversized
\* buy and a sale, still holds a position
C38_Witness ==
    /\ last.op = "place_order" /\ last.qty = 0
    /\ positions /= EmptyMap
    /\ Len(trade_history) = 2
    /\ trade_history[1].side = "buy" /\ trade_history[1].qty > Shares(3)
    /\ trade_history[2].side = "sell"

\* the orders in which the calls of a gather can be made one after the other
SerialOrders ==
    { p \in [1 .. GatherSize -> 1 .. GatherSize] :
         \A i, j \in 1 .. GatherSize : i /= j => p[i] /= p[j] }

RECURSIVE SerialRun(_, _, _, _, _)
\* the broker after the calls of the gather made one after the other in the order
\* p from the k-th on, the provider answering the bar request of the k-th call
\* as answers[k] says
SerialRun(p, answers, k, b, cache) ==
    IF k > GatherSize THEN b
    ELSE LET call == gathered[p[k]].call
             loaded == BT_load(cache, market, call.symbol, answers[k])
             out == IF kind = "backtest"
                    THEN place_order_with(loaded[call.symbol], b, call)
                    ELSE Fast_place_order(b.cash, b.positions, b.trade_history,
                                          current_date,
                                          Fast_quote(Fast_load(price_cache, call.symbol,
                                                               hashseed)[call.symbol],
                                                     call.symbol, current_date).price,
                                          call.symbol, call.qty, call.side, NoLimit)
         IN  SerialRun(p, answers, k + 1, out, loaded)

\* every coroutine of the gather has returned
GatherDone ==
    /\ pc = "gather"
    /\ \A i \in 1 .. Len(gathered) : gathered[i].at = "done"

\* C39: when several place_order coroutines run together, under any interleaving
\* at their suspension points, FastBacktestBroker's cash stays >= 0 and the
\* final cash, positions and trade history are those of the same calls made one
\* after the other in some order.
C39_GatheredOrdersAreSerial ==
    /\ kind = "fast" => cash >= 0
    /\ GatherDone =>
          \E p \in SerialOrders, answers \in [1 .. GatherSize -> BOOLEAN] :
              LET b == SerialRun(p, answers, 1,
                                 Outcome(initial_cash, EmptyMap, << >>, NoResult),
                                 EmptyMap)
              IN  /\ b.cash = cash
                  /\ b.positions = positions
                  /\ b.trade_history = trade_history
====
